---- MODULE Spec2Model ----
(***************************************************************************)
(* Training / evaluation orchestration of the code readability classifier  *)
(* (readability_classifier/toch/base_classifier.py): BaseClassifier.fit,   *)
(* k_fold_cv, evaluate, store, and the stats records they produce.         *)
(*                                                                         *)
(* Abstractions.                                                           *)
(*  - Model parameters are a pair [init, steps]: which random              *)
(*    initialisation the weights come from, and how many optimizer steps   *)
(*    were applied to them since.  Two parameter sets are equal exactly    *)
(*    when both components agree.                                          *)
(*  - The optimizer is [bound, state]: the initialisation whose parameter  *)
(*    tensors it updates, and the number of steps accumulated in its       *)
(*    per-parameter state.                                                 *)
(*  - A DataLoader is [kind, batches]; NoLoader stands for None.           *)
(*  - Losses are integers; Inf stands for float("inf").  NaN is not        *)
(*    modelled.                                                            *)
(*  - store_dir is an existing directory (main.py creates it before the    *)
(*    classifier is built); the files in it are the variables files,       *)
(*    train_stats_json and k_fold_stats_json.                              *)
(*  - Scores and model outputs are integers in tenths.  The metrics that   *)
(*    evaluate() computes are exact rationals [num, den]; the Matthews     *)
(*    correlation is [num, den_sq], standing for num / sqrt(den_sq).       *)
(*    Where k_fold_cv and KFoldStats only collect and aggregate metric     *)
(*    values, the values are integers; a mean is a rational and a          *)
(*    standard deviation is [sq_num, sq_den], standing for                 *)
(*    sqrt(sq_num / sq_den).                                               *)
(*                                                                         *)
(* Specifications.                                                         *)
(*  - Spec: one fit() or k_fold_cv() call on a classifier.                 *)
(*  - EvalSpec: one evaluate() call, batch by batch.                       *)
(*  - StatsSpec: one construction of KFoldStats from a list of fold stats. *)
(*  - OpsSpec: training steps, store(), load() and predict() calls, in any *)
(*    order, on two classifiers that share a directory.                    *)
(*  - CliSpec: the TRAIN command of main.py, with or without               *)
(*    cross-validation.                                                    *)
(*  - ModelsSpec: one fit() call of the earlier BaseClassifier             *)
(*    (readability_classifier/models/base_classifier.py).                  *)
(*  - ExtractorSpec: one forward pass of the structural extractor, of the  *)
(*    visual extractor or of the semantic extractor's embedding; tensors   *)
(*    are their shapes, embeddings the indices looked up.                  *)
(***************************************************************************)
EXTENDS Integers, Sequences, FiniteSets, TLC

(* ---- bounds ---- *)
MaxEpochs == 3
MaxBatches == 2
MaxLoss == 2
MaxK == 2
MaxTime == 2

(* ---- program constants ---- *)
Inf == 1000
CLASS_DEF_TIME == 0
\* store(path=None, epoch=None): the integer standing for "no epoch given"
NoEpoch == -1

FiniteLosses == 1..MaxLoss
Losses == FiniteLosses \cup {Inf}
TrainLosses == {1}
Accuracies == 0..1

(* ---- evaluate(): bounds and inputs ---- *)
MaxTestBatches == 2
MaxBatchSize == 2
\* scores and model outputs, in tenths: 0.4, 0.5, 0.6
Scores == {4, 5, 6}
\* the threshold 0.5 of lines 550-551, in tenths
Threshold == 5
\* a batch of scores; the batches a test loader yields
ScoreBatches == UNION {[1..n -> Scores] : n \in 1..MaxBatchSize}
TestSets == UNION {[1..n -> ScoreBatches] : n \in 0..MaxTestBatches}

NoLoader == [kind |-> "None"]
NoFile == [kind |-> "absent"]
NoValue == [kind |-> "None"]
Loaders(kind) == {[kind |-> kind, batches |-> n] : n \in 1..MaxBatches}
\* dataset_to_dataloader(dataset, batch_size): a loader over a non-empty dataset
DatasetLoader(kind) == [kind |-> kind, batches |-> MaxBatches]
\* the loader built over one part of fold i
FoldLoader(kind, i) == [kind |-> kind, fold |-> i, batches |-> MaxBatches]

NoFiles == [p \in {} |-> NoValue]

BestModelPath == [name |-> "best_model.pt"]

VARIABLES
    pc,             \* control location of the running method
    method,         \* the method the caller invoked: "", "fit" or "k_fold_cv"
    caller,         \* who called fit(): "main" or "k_fold_cv"
    error,          \* exception that terminated the run, "" when none
    now,            \* wall clock, in seconds
    model,          \* self.model: [init, steps, training]
    inits,          \* number of model initialisations built so far
    optimizer,      \* self.optimizer: [bound, state]
    initial_optimizer_state_dict,
    train_dataset, test_dataset,
    train_loader, val_loader, test_loader,
    num_epochs,
    epoch,          \* fit(): passes of "for epoch in range(num_epochs)" completed
    train_loss, val_loss, best_val_set,
    train_stats,    \* fit(): the TrainStats object
    fit_ret,        \* value returned by the last fit() call
    k, idx, fold_stats,   \* k_fold_cv(): parameter, loop index, list
    kfold_ret,      \* value returned by the last k_fold_cv() call
    files,          \* checkpoint files in store_dir: path -> parameters
    train_stats_json, k_fold_stats_json,
    trace,          \* history: what the current fit() call did, in order
    ktrace,         \* history: what the current k_fold_cv() call did, in order
    grad_enabled,   \* torch's gradient mode (torch.is_grad_enabled())
    test_scores,    \* the score tensors of the batches test_loader yields
    y_true, y_pred, \* evaluate(): the two lists of per-batch tensors
    eval_ret,       \* value returned by the last evaluate() call
    fwd,            \* history: the forward passes made, in order
    in_folds,       \* argument of the KFoldStats constructor
    kfs,            \* the object the constructor produced
    cls,            \* two classifiers sharing a directory: number -> fields
    ops,            \* number of method calls made on them
    pred_ret,       \* value returned by the last predict() call
    last,           \* history: the last method call made on them
    snap,           \* history: path -> who stored there last, and what
    args,           \* the parsed command line of the TRAIN command
    extractor,      \* which extractor the forward pass below belongs to
    x_in,           \* its input: a tensor shape, or the embedding's inputs
    x_out           \* its output, likewise

ctl == <<pc, method, caller, error, now>>
clf == <<model, inits, optimizer, initial_optimizer_state_dict>>
loaders == <<train_loader, val_loader, test_loader>>
data == <<train_dataset, test_dataset, loaders, num_epochs>>
fitv == <<epoch, train_loss, val_loss, best_val_set, train_stats, fit_ret>>
kfv == <<k, idx, fold_stats, kfold_ret>>
disk == <<files, train_stats_json, k_fold_stats_json>>
hist == <<trace, ktrace>>
evalv == <<test_scores, y_true, y_pred, eval_ret>>
statv == <<in_folds, kfs>>
opsv == <<cls, ops, pred_ret, last, snap>>
cliv == <<args>>
extrv == <<extractor, x_in, x_out>>
extv == <<cliv, extrv>>
aux == <<grad_enabled, fwd, evalv, statv, opsv, extv>>
vars == <<ctl, clf, data, fitv, kfv, disk, hist, aux>>

(* ---- helpers ---- *)
Params(m) == [init |-> m.init, steps |-> m.steps]

\* time() / datetime.now(): the clock never runs backwards
Clock == {t \in now..MaxTime : t <= now + 1}

EpochStats(e, tl, vl) == [epoch |-> e, train_loss |-> tl, test_loss |-> vl]

\* (variant: the defaults are evaluated for each instance)
TrainStats_PerInstance(best, stats) ==
    [best_epoch |-> best, epoch_stats |-> stats,
     start_time |-> now, end_time |-> now]

\* TrainStats(best_epoch, epoch_stats): the defaults of start_time and
\* end_time were evaluated once, when the class was defined
TrainStats(best, stats) ==
    [best_epoch |-> best, epoch_stats |-> stats,
     start_time |-> CLASS_DEF_TIME, end_time |-> CLASS_DEF_TIME]

\* model and optimizer as ViStClassifier.__init__ builds them
ConstructedModel == [init |-> 0, steps |-> 0, training |-> TRUE]

\* (variant: the optimizer is built over the parameters of another model)
ConstructedOptimizer_OtherModel == [bound |-> -1, state |-> 0]

\* "optim.RMSprop(model.parameters(), lr=learning_rate)"
\* (vi_st_classifier.py line 55): bound to the model just built, no state yet
ConstructedOptimizer == [bound |-> 0, state |-> 0]

\* optimizer.state_dict(): a snapshot of the accumulated state
StateDict(opt) == opt.state

\* (variant: the epoch is left out of the file name)
StorePath_NoEpoch(path, e, t) ==
    IF path = NoValue THEN [name |-> "model", time |-> t] ELSE path

\* path chosen by store(path, epoch) at time t
StorePath(path, e, t) ==
    IF path = NoValue /\ e = NoEpoch THEN [name |-> "model", time |-> t]
    ELSE IF path = NoValue THEN [name |-> "model", time |-> t, epoch |-> e]
    ELSE path

\* (variant: the file receives the parameters as they were initialised)
Store_Initial(fs, m, path, e, t) ==
    LET p == StorePath(path, e, t)
    IN [q \in DOMAIN fs \cup {p} |->
            IF q = p THEN [init |-> m.init, steps |-> 0] ELSE fs[q]]

\* torch.save(self.model.state_dict(), path) on the directory content fs
Store(fs, m, path, e, t) ==
    LET p == StorePath(path, e, t)
    IN [q \in DOMAIN fs \cup {p} |-> IF q = p THEN Params(m) ELSE fs[q]]

\* the variables the training run does not use
AuxInit ==
    /\ grad_enabled = TRUE /\ fwd = <<>>
    /\ test_scores = <<>> /\ y_true = <<>> /\ y_pred = <<>> /\ eval_ret = NoValue
    /\ in_folds = <<>> /\ kfs = NoValue
    /\ cls = <<>> /\ ops = 0 /\ pred_ret = NoValue /\ last = NoValue
    /\ snap = NoFiles
    /\ args = NoValue
    /\ extractor = "" /\ x_in = NoValue /\ x_out = NoValue

Init ==
    /\ pc = "idle" /\ method = "" /\ caller = "main" /\ error = "" /\ now = 0
    /\ model = ConstructedModel
    /\ inits = 1
    /\ optimizer = ConstructedOptimizer
    /\ initial_optimizer_state_dict = StateDict(ConstructedOptimizer)
    /\ train_dataset \in {"None", "dataset"}
    /\ test_dataset \in {"None", "dataset"}
    /\ train_loader \in {NoLoader} \cup Loaders("ctor")
    /\ val_loader \in {NoLoader, [kind |-> "ctor", batches |-> 1]}
    /\ test_loader \in {NoLoader, [kind |-> "ctor", batches |-> 1]}
    /\ num_epochs \in 0..MaxEpochs
    /\ epoch = 0 /\ train_loss = 0 /\ val_loss = 0 /\ best_val_set = Inf
    /\ train_stats = NoValue /\ fit_ret = NoValue
    /\ k = 0 /\ idx = 0 /\ fold_stats = <<>> /\ kfold_ret = NoValue
    /\ files = NoFiles
    /\ train_stats_json = NoFile /\ k_fold_stats_json = NoFile
    /\ trace = <<>> /\ ktrace = <<>>
    /\ AuxInit

(* ---- fit() ---- *)

\* (variant: only the training loader is checked)
LoadersMissing_TrainOnly(tl, vl) == tl = NoLoader

\* guards of fit(), lines 300-304
LoadersMissing(tl, vl) == tl = NoLoader \/ vl = NoLoader

\* (variant: a tie counts as an improvement)
Improves_OrEqual(vl, best) == vl <= best

\* "if val_loss < best_val_set", line 331
Improves(vl, best) == vl < best

\* (variant: the best loss seen so far is never updated)
NewBest_NeverUpdated(vl, best) == best

\* "best_val_set = val_loss" under that condition, line 332
NewBest(vl, best) == IF Improves(vl, best) THEN vl ELSE best

\* (variant: the loop stops one pass early)
LoopDone_OneEarly(e, n) == e + 1 >= n

\* "for epoch in range(self.num_epochs)": is the loop over after e passes?
LoopDone(e, n) == e >= n

\* "epoch + 1": the number recorded, stored and reported for loop index e
EpochNumber(e) == e + 1

\* (variant: end_time keeps its old value)
RefreshEndTime_Stale(ts, t) == ts

\* TrainStats.to_json, first statement: self.end_time = int(time())
RefreshEndTime(ts, t) == [ts EXCEPT !.end_time = t]

\* (variant: the per-epoch stats are left out of the file)
Dumps_NoEpochs(ts) ==
    [best_epoch |-> ts.best_epoch,
     epoch_stats |-> <<>>,
     start_time |-> ts.start_time,
     end_time |-> ts.end_time]

\* TrainStats.to_json, second statement: json.dumps(asdict(self))
Dumps(ts) ==
    [best_epoch |-> ts.best_epoch,
     epoch_stats |-> [i \in 1..Len(ts.epoch_stats) |->
                        EpochStats(ts.epoch_stats[i].epoch,
                                   ts.epoch_stats[i].train_loss,
                                   ts.epoch_stats[i].test_loss)],
     start_time |-> ts.start_time,
     end_time |-> ts.end_time]

\* entry of fit() with the loaders tl, vl (lines 300-309)
FitBegin(tl, vl) ==
    IF LoadersMissing(tl, vl)
    THEN /\ pc' = "raised" /\ error' = "ValueError"
         /\ UNCHANGED <<epoch, best_val_set, train_stats, trace>>
    ELSE /\ train_stats' = TrainStats(0, <<>>)
         /\ best_val_set' = Inf
         /\ epoch' = 0
         /\ pc' = IF LoopDone(0, num_epochs) THEN "fit_save" ELSE "fit_train"
         /\ error' = ""
         /\ trace' = <<>>

\* the caller invokes fit()
CallFit ==
    /\ pc = "idle"
    /\ method' = "fit"
    /\ caller' = "main"
    /\ FitBegin(train_loader, val_loader)
    /\ UNCHANGED aux /\ UNCHANGED <<now, clf, data, train_loss, val_loss, fit_ret, kfv, disk, ktrace>>

\* _fit_epoch (lines 359-375): train mode, one optimizer step per batch
FitEpoch ==
    /\ pc = "fit_train"
    /\ \E tl \in TrainLosses : train_loss' = tl
    /\ model' = [model EXCEPT !.training = TRUE,
                              !.steps = @ + train_loader.batches]
    /\ optimizer' = [optimizer EXCEPT !.state = @ + train_loader.batches]
    /\ trace' = Append(trace, [op |-> "train", params |-> Params(model')])
    /\ pc' = "fit_val"
    /\ UNCHANGED aux /\ UNCHANGED <<method, caller, error, now, inits, initial_optimizer_state_dict,
                   data, epoch, val_loss, best_val_set, train_stats, fit_ret, kfv,
                   disk, ktrace>>

\* _val_epoch (lines 377-398): eval mode, no parameter update
ValEpoch ==
    /\ pc = "fit_val"
    /\ \E vl \in Losses : val_loss' = vl
    /\ model' = [model EXCEPT !.training = FALSE]
    /\ trace' = Append(trace, [op |-> "val", params |-> Params(model')])
    /\ pc' = "fit_record"
    /\ UNCHANGED aux /\ UNCHANGED <<method, caller, error, now, inits, optimizer,
                   initial_optimizer_state_dict, data, epoch, train_loss,
                   best_val_set, train_stats, fit_ret, kfv, disk, ktrace>>

\* rest of the loop body (lines 313-334): record the EpochStats, store the
\* epoch checkpoint, update and store the best model
RecordEpoch ==
    /\ pc = "fit_record"
    /\ \E t \in Clock :
        LET e == EpochNumber(epoch)
            better == Improves(val_loss, best_val_set)
            fs1 == Store(files, model, NoValue, e, t)
            fs2 == IF better THEN Store(fs1, model, BestModelPath, NoEpoch, t)
                   ELSE fs1
            ev1 == [op |-> "store", epoch |-> e, params |-> Params(model),
                    path |-> StorePath(NoValue, e, t)]
            ev2 == [op |-> "store_best", epoch |-> e, params |-> Params(model)]
        IN /\ train_stats' =
                [train_stats EXCEPT
                    !.epoch_stats = Append(@, EpochStats(e, train_loss, val_loss)),
                    !.best_epoch = IF better THEN e ELSE @]
           /\ best_val_set' = NewBest(val_loss, best_val_set)
           /\ files' = fs2
           /\ now' = t
           /\ trace' = IF better THEN trace \o <<ev1, ev2>> ELSE Append(trace, ev1)
    /\ epoch' = epoch + 1
    /\ pc' = IF LoopDone(epoch + 1, num_epochs) THEN "fit_save" ELSE "fit_train"
    /\ UNCHANGED aux /\ UNCHANGED <<method, caller, error, clf, data, train_loss, val_loss, fit_ret,
                   kfv, train_stats_json, k_fold_stats_json, ktrace>>

\* end of fit() (lines 336-343): write train_stats.json, return train_stats
FitSave ==
    /\ pc = "fit_save"
    /\ \E t \in Clock :
        /\ now' = t
        /\ train_stats' = RefreshEndTime(train_stats, t)
        /\ trace' = Append(trace, [op |-> "save_stats", time |-> t])
    /\ train_stats_json' = Dumps(train_stats')
    /\ fit_ret' = train_stats'
    /\ pc' = IF caller = "main" THEN "done" ELSE "kf_eval"
    /\ ktrace' = IF caller = "main" THEN ktrace
                 ELSE Append(ktrace, [op |-> "fit", fold |-> idx,
                                      params |-> Params(model),
                                      stats |-> train_stats'])
    /\ UNCHANGED aux /\ UNCHANGED <<method, caller, error, clf, data, epoch, train_loss, val_loss,
                   best_val_set, kfv, files, k_fold_stats_json>>

\* (variant: the failed pass is caught and run again)
OnBatchError_Retry(p) == p

\* no try/except around the passes (lines 309-334, 359-398): where control
\* goes from location p when a batch raises
OnBatchError(p) == "raised"

\* a batch raises inside _fit_epoch or _val_epoch (shape mismatch, device
\* error, division by len() of an empty loader): the exception leaves fit()
\* and its callers
BatchFails ==
    /\ pc \in {"fit_train", "fit_val"}
    /\ IF pc = "fit_train"
       THEN \E done \in 0..(train_loader.batches - 1) :
              /\ model' = [model EXCEPT !.training = TRUE, !.steps = @ + done]
              /\ optimizer' = [optimizer EXCEPT !.state = @ + done]
       ELSE /\ model' = [model EXCEPT !.training = FALSE]
            /\ optimizer' = optimizer
    /\ pc' = OnBatchError(pc) /\ error' = "RuntimeError"
    /\ UNCHANGED aux /\ UNCHANGED <<method, caller, now, inits, initial_optimizer_state_dict, data,
                   fitv, kfv, disk, hist>>

(* ---- evaluate() ---- *)

\* a raised exception, where a value was expected
Raised(e) == [kind |-> "raised", error |-> e]

\* a rational metric value num/den; NaN is 0/0
Ratio(n, d) == [num |-> n, den |-> d]
NaN == Ratio(0, 0)

\* the record returned by evaluate() (lines 576-583)
EvaluationStats(accuracy, precision, recall, f1, auc, mcc) ==
    [accuracy |-> accuracy, precision |-> precision, recall |-> recall,
     f1 |-> f1, auc |-> auc, mcc |-> mcc]

\* (variant: no check)
TestLoaderMissing_Unchecked(tl) == FALSE

\* guard of evaluate(), line 525
TestLoaderMissing(tl) == tl = NoLoader

\* np.concatenate of the per-batch arrays, in list order (lines 542-543)
RECURSIVE Concatenate(_)
Concatenate(arrays) ==
    IF arrays = <<>> THEN <<>> ELSE Head(arrays) \o Concatenate(Tail(arrays))

\* (variant: a score equal to the threshold gets label 0)
Label_Strict(s) == IF s > Threshold THEN 1 ELSE 0

\* np.where(y >= 0.5, 1, 0) on one score (lines 550-551)
Label(s) == IF s >= Threshold THEN 1 ELSE 0

Binarize(arr) == [i \in 1..Len(arr) |-> Label(arr[i])]

\* one cell of the confusion matrix: samples with true label a, predicted b
Cell(yt, yp, a, b) == Cardinality({i \in 1..Len(yt) : yt[i] = a /\ yp[i] = b})

\* sklearn.metrics.accuracy_score (line 558)
AccuracyScore(yt, yp) == Ratio(Cell(yt, yp, 1, 1) + Cell(yt, yp, 0, 0), Len(yt))

\* sklearn.metrics.precision_score (line 559): tp / (tp + fp), 0.0 with a
\* warning when nothing is predicted positive
PrecisionScore(yt, yp) ==
    LET tp == Cell(yt, yp, 1, 1)
        fp == Cell(yt, yp, 0, 1)
    IN IF tp + fp = 0 THEN Ratio(0, 1) ELSE Ratio(tp, tp + fp)

\* (variant: recall computed by the precision formula)
RecallScore_AsPrecision(yt, yp) == PrecisionScore(yt, yp)

\* sklearn.metrics.recall_score (line 560): tp / (tp + fn), 0.0 with a warning
\* when there is no positive sample
RecallScore(yt, yp) ==
    LET tp == Cell(yt, yp, 1, 1)
        fn == Cell(yt, yp, 1, 0)
    IN IF tp + fn = 0 THEN Ratio(0, 1) ELSE Ratio(tp, tp + fn)

\* sklearn.metrics.f1_score (line 561): 2tp / (2tp + fp + fn), 0.0 with a
\* warning when that is 0/0
F1Score(yt, yp) ==
    LET tp == Cell(yt, yp, 1, 1)
        fp == Cell(yt, yp, 0, 1)
        fn == Cell(yt, yp, 1, 0)
    IN IF 2 * tp + fp + fn = 0 THEN Ratio(0, 1)
       ELSE Ratio(2 * tp, 2 * tp + fp + fn)

\* sklearn.metrics.roc_auc_score (line 562), the set of possible outcomes.
\* With 0/1 predictions the ROC curve has one inner point and the area is
\* (tpr + tnr) / 2.  With one class only in y_true the score is undefined:
\* the call raises ValueError, or, in newer scikit-learn releases, warns and
\* returns nan.
RocAucScore(yt, yp) ==
    LET tp == Cell(yt, yp, 1, 1)
        fp == Cell(yt, yp, 0, 1)
        fn == Cell(yt, yp, 1, 0)
        tn == Cell(yt, yp, 0, 0)
    IN IF tp + fn = 0 \/ tn + fp = 0
       THEN {Raised("ValueError"), NaN}
       ELSE {Ratio(tp * (tn + fp) + tn * (tp + fn), 2 * (tp + fn) * (tn + fp))}

\* sklearn.metrics.matthews_corrcoef (line 563): the value is
\* num / sqrt(den_sq), and 0.0 when the denominator is 0
MatthewsCorrcoef(yt, yp) ==
    LET tp == Cell(yt, yp, 1, 1)
        fp == Cell(yt, yp, 0, 1)
        fn == Cell(yt, yp, 1, 0)
        tn == Cell(yt, yp, 0, 0)
        d == (tp + fp) * (tp + fn) * (tn + fp) * (tn + fn)
    IN IF d = 0 THEN [num |-> 0, den_sq |-> 1]
       ELSE [num |-> tp * tn - fp * fn, den_sq |-> d]

\* the caller invokes evaluate() (lines 525-530)
CallEvaluate ==
    /\ pc = "idle"
    /\ method' = "evaluate"
    /\ IF TestLoaderMissing(test_loader)
       THEN /\ pc' = "raised" /\ error' = "ValueError"
            /\ UNCHANGED <<model, y_true, y_pred>>
       ELSE /\ model' = [model EXCEPT !.training = FALSE]
            /\ y_true' = <<>> /\ y_pred' = <<>>
            /\ pc' = "ev_loop" /\ error' = ""
    /\ UNCHANGED <<caller, now, inits, optimizer, initial_optimizer_state_dict,
                   data, fitv, kfv, disk, hist, grad_enabled, fwd, test_scores,
                   eval_ret, statv, opsv, extv>>

\* one pass of "for batch in self.test_loader" (lines 533-538): the forward
\* pass runs in whatever gradient mode is in force
EvalBatch ==
    /\ pc = "ev_loop"
    /\ Len(y_true) < Len(test_scores)
    /\ LET y == test_scores[Len(y_true) + 1]
       IN /\ y_true' = Append(y_true, y)
          /\ \E out \in [1..Len(y) -> Scores] : y_pred' = Append(y_pred, out)
    /\ fwd' = Append(fwd, [by |-> "evaluate", training |-> model.training,
                           grad |-> grad_enabled, params |-> Params(model)])
    /\ UNCHANGED <<ctl, clf, data, fitv, kfv, disk, hist, grad_enabled,
                   test_scores, eval_ret, statv, opsv, extv>>

\* after the loop (lines 540-583): concatenate, threshold, compute the metrics
EvalFinish ==
    /\ pc = "ev_loop"
    /\ Len(y_true) = Len(test_scores)
    /\ IF y_true = <<>>
       THEN \* np.concatenate of an empty list raises ValueError
            /\ pc' = "raised" /\ error' = "ValueError"
            /\ UNCHANGED eval_ret
       ELSE LET yt == Binarize(Concatenate(y_true))
                yp == Binarize(Concatenate(y_pred))
            IN \E auc \in RocAucScore(yt, yp) :
                 IF auc = Raised("ValueError")
                 THEN /\ pc' = "raised" /\ error' = "ValueError"
                      /\ UNCHANGED eval_ret
                 ELSE /\ eval_ret' = EvaluationStats(
                             AccuracyScore(yt, yp), PrecisionScore(yt, yp),
                             RecallScore(yt, yp), F1Score(yt, yp), auc,
                             MatthewsCorrcoef(yt, yp))
                      /\ pc' = "done" /\ error' = ""
    /\ UNCHANGED <<method, caller, now, clf, data, fitv, kfv, disk, hist,
                   grad_enabled, fwd, test_scores, y_true, y_pred, statv, opsv, extv>>

\* a classifier built with a test loader over a labelled test set, or none
EvalInit ==
    /\ pc = "idle" /\ method = "" /\ caller = "main" /\ error = "" /\ now = 0
    /\ model = ConstructedModel
    /\ inits = 1
    /\ optimizer = ConstructedOptimizer
    /\ initial_optimizer_state_dict = StateDict(ConstructedOptimizer)
    /\ train_dataset = "None" /\ test_dataset = "None"
    /\ train_loader = NoLoader /\ val_loader = NoLoader
    /\ test_scores \in TestSets
    /\ test_loader \in {NoLoader, [kind |-> "ctor", batches |-> Len(test_scores)]}
    /\ test_loader = NoLoader => test_scores = <<>>
    /\ num_epochs = 0
    /\ epoch = 0 /\ train_loss = 0 /\ val_loss = 0 /\ best_val_set = Inf
    /\ train_stats = NoValue /\ fit_ret = NoValue
    /\ k = 0 /\ idx = 0 /\ fold_stats = <<>> /\ kfold_ret = NoValue
    /\ files = NoFiles
    /\ train_stats_json = NoFile /\ k_fold_stats_json = NoFile
    /\ trace = <<>> /\ ktrace = <<>>
    /\ grad_enabled = TRUE /\ fwd = <<>>
    /\ y_true = <<>> /\ y_pred = <<>> /\ eval_ret = NoValue
    /\ in_folds = <<>> /\ kfs = NoValue
    /\ cls = <<>> /\ ops = 0 /\ pred_ret = NoValue /\ last = NoValue
    /\ snap = NoFiles
    /\ args = NoValue
    /\ extractor = "" /\ x_in = NoValue /\ x_out = NoValue

EvalNext == CallEvaluate \/ EvalBatch \/ EvalFinish

EvalSpec == EvalInit /\ [][EvalNext]_vars

(* ---- k_fold_cv() ---- *)

\* what evaluate() returns to k_fold_cv for one fold: the stats of a model
\* that is right on every test sample (acc = 1) or wrong on every one
\* (acc = 0); the metric values are inputs here, in whole units
FoldEvaluation(acc) == EvaluationStats(acc, acc, acc, acc, acc, 2 * acc - 1)

\* (variant: only the training dataset is checked)
DatasetsMissing_TrainOnly(trd, ted) == trd = "None"

\* guards of k_fold_cv(), lines 234-238
DatasetsMissing(trd, ted) == trd = "None" \/ ted = "None"

\* split_k_fold(self.train_dataset, k_fold=k): the number of folds produced
SplitKFold(kk) == kk

\* (variant: the list is replaced instead of extended)
AppendFold_Replace(fs, s) == <<s>>

\* "fold_stats.append(stats)", line 263
AppendFold(fs, s) == Append(fs, s)

\* (variant: the trained model is kept)
ResetModel_Keep(m, fresh) == m

\* "self.model = self.model.__class__.build_from_config()", lines 266-267:
\* a new module with freshly initialised weights, in training mode
ResetModel(m, fresh) == [init |-> fresh, steps |-> 0, training |-> TRUE]

\* (variant: the state of the optimizer in use is loaded)
ResetOptimizer_CurrentState(opt, m, sd) == [bound |-> m.init, state |-> StateDict(opt)]

\* lines 270-273: a new optimizer over the parameters of model m, loaded with
\* the state dict sd
ResetOptimizer(opt, m, sd) == [bound |-> m.init, state |-> sd]

\* "[stats.X for stats in fold_stats]"
Column(fs, X) == [i \in 1..Len(fs) |-> fs[i][X]]

RECURSIVE SeqSum(_)
SeqSum(vals) == IF vals = <<>> THEN 0 ELSE Head(vals) + SeqSum(Tail(vals))

\* (variant: max(..., default=0) and min(..., default=0))
EmptyRaises_Default(vals) == FALSE

\* the builtins max() and min() raise ValueError on an empty list
EmptyRaises(vals) == vals = <<>>

\* max(vals); the value for an empty list is that of the default= variant
PyMax(vals) ==
    IF vals = <<>> THEN 0
    ELSE vals[CHOOSE i \in 1..Len(vals) : \A j \in 1..Len(vals) : vals[j] <= vals[i]]

\* min(vals), likewise
PyMin(vals) ==
    IF vals = <<>> THEN 0
    ELSE vals[CHOOSE i \in 1..Len(vals) : \A j \in 1..Len(vals) : vals[i] <= vals[j]]

\* np.mean(vals): the sum divided by the length; nan for an empty list
NpMean(vals) == IF vals = <<>> THEN NaN ELSE Ratio(SeqSum(vals), Len(vals))

\* (variant: the sample standard deviation, ddof=1)
NpStd_Sample(vals) ==
    LET n == Len(vals)
        s == SeqSum(vals)
    IN IF vals = <<>> THEN NaN
       ELSE [sq_num |-> SeqSum([i \in 1..n |-> (n * vals[i] - s) * (n * vals[i] - s)]),
             sq_den |-> n * n * (n - 1)]

\* np.std(vals) = sqrt(mean(abs(vals - mean(vals)) ** 2)), ddof = 0.  The
\* value is sqrt(sq_num / sq_den): each deviation is (n * x - sum) / n, the
\* squares are summed and divided by n.  nan for an empty list.
NpStd(vals) ==
    LET n == Len(vals)
        s == SeqSum(vals)
    IN IF vals = <<>> THEN NaN
       ELSE [sq_num |-> SeqSum([i \in 1..n |-> (n * vals[i] - s) * (n * vals[i] - s)]),
             sq_den |-> n * n * n]

\* KFoldStats.__init__ (lines 133-170): the object built, or the exception
\* raised by the first max() over an empty list
KFoldStats(fs) ==
    LET acc == Column(fs, "accuracy")
        pre == Column(fs, "precision")
        rec == Column(fs, "recall")
        f1s == Column(fs, "f1")
        auc == Column(fs, "auc")
        mcc == Column(fs, "mcc")
    IN IF EmptyRaises(acc) THEN Raised("ValueError")
       ELSE [fold_stats |-> fs,
             max_accuracy |-> PyMax(acc), min_accuracy |-> PyMin(acc),
             mean_accuracy |-> NpMean(acc), std_accuracy |-> NpStd(acc),
             max_precision |-> PyMax(pre), min_precision |-> PyMin(pre),
             mean_precision |-> NpMean(pre), std_precision |-> NpStd(pre),
             max_recall |-> PyMax(rec), min_recall |-> PyMin(rec),
             mean_recall |-> NpMean(rec), std_recall |-> NpStd(rec),
             max_f1 |-> PyMax(f1s), min_f1 |-> PyMin(f1s),
             mean_f1 |-> NpMean(f1s), std_f1 |-> NpStd(f1s),
             max_auc |-> PyMax(auc), min_auc |-> PyMin(auc),
             mean_auc |-> NpMean(auc), std_auc |-> NpStd(auc),
             max_mcc |-> PyMax(mcc), min_mcc |-> PyMin(mcc),
             mean_mcc |-> NpMean(mcc), std_mcc |-> NpStd(mcc)]

\* KFoldStats.to_json (lines 172-177): json.dumps(asdict(self))
KFoldStatsToJson(s) == s

\* the caller invokes k_fold_cv(kk) (lines 234-242)
CallKFold ==
    /\ pc = "idle"
    /\ method' = "k_fold_cv"
    /\ \E kk \in 0..MaxK :
        IF DatasetsMissing(train_dataset, test_dataset)
        THEN /\ pc' = "raised" /\ error' = "ValueError"
             /\ UNCHANGED <<k, idx, fold_stats>>
        ELSE /\ k' = kk /\ idx' = 0 /\ fold_stats' = <<>>
             /\ pc' = IF SplitKFold(kk) > 0 THEN "kf_fold" ELSE "kf_stats"
             /\ error' = ""
    /\ UNCHANGED aux /\ UNCHANGED <<caller, now, clf, data, fitv, kfold_ret, disk, hist>>

\* start of the loop body (lines 244-255): per-fold loaders, then fit()
KFoldFit ==
    /\ pc = "kf_fold"
    /\ train_loader' = FoldLoader("fold_train", idx)
    /\ val_loader' = FoldLoader("fold_val", idx)
    /\ FitBegin(train_loader', val_loader')
    /\ caller' = "k_fold_cv"
    /\ UNCHANGED aux /\ UNCHANGED <<method, now, clf, train_dataset, test_dataset, test_loader,
                   num_epochs, train_loss, val_loss, fit_ret, kfv, disk, ktrace>>

\* lines 257-263: loader over the test dataset, evaluate(), collect the stats
KFoldEvaluate ==
    /\ pc = "kf_eval"
    /\ test_loader' = DatasetLoader("test_dataset")
    /\ model' = [model EXCEPT !.training = FALSE]
    /\ \E acc \in Accuracies :
        /\ fold_stats' = AppendFold(fold_stats, FoldEvaluation(acc))
        /\ ktrace' = Append(ktrace, [op |-> "evaluate", fold |-> idx,
                                     params |-> Params(model),
                                     stats |-> FoldEvaluation(acc)])
    /\ pc' = "kf_reset"
    /\ UNCHANGED aux /\ UNCHANGED <<method, caller, error, now, inits, optimizer,
                   initial_optimizer_state_dict, train_dataset, test_dataset,
                   train_loader, val_loader, num_epochs, fitv, k, idx, kfold_ret,
                   disk, trace>>

\* lines 265-273: reset model and optimizer, next fold
KFoldReset ==
    /\ pc = "kf_reset"
    /\ model' = ResetModel(model, inits)
    /\ inits' = inits + 1
    /\ optimizer' = ResetOptimizer(optimizer, model', initial_optimizer_state_dict)
    /\ idx' = idx + 1
    /\ ktrace' = Append(ktrace, [op |-> "reset", fold |-> idx,
                                 params |-> Params(model')])
    /\ pc' = IF idx + 1 < SplitKFold(k) THEN "kf_fold" ELSE "kf_stats"
    /\ UNCHANGED aux /\ UNCHANGED <<method, caller, error, now, initial_optimizer_state_dict, data,
                   fitv, k, fold_stats, kfold_ret, disk, trace>>

\* lines 275-292: aggregate, write k_fold_stats.json, return
KFoldFinish ==
    /\ pc = "kf_stats"
    /\ LET k_fold_stats == KFoldStats(fold_stats)
       IN IF k_fold_stats = Raised("ValueError")
          THEN /\ pc' = "raised" /\ error' = "ValueError"
               /\ UNCHANGED <<kfold_ret, k_fold_stats_json>>
          ELSE /\ kfold_ret' = k_fold_stats
               /\ k_fold_stats_json' = KFoldStatsToJson(k_fold_stats)
               /\ pc' = "done" /\ error' = ""
    /\ UNCHANGED aux /\ UNCHANGED <<method, caller, now, clf, data, fitv, k, idx, fold_stats, files,
                   train_stats_json, hist>>

(* ---- the KFoldStats constructor on its own ---- *)
MaxFolds == 2
MaxMetric == 1
MetricValues == 0..MaxMetric
FoldStatsRecords ==
    {EvaluationStats(a, p, r, f, u, m) :
        a \in MetricValues, p \in MetricValues, r \in MetricValues,
        f \in MetricValues, u \in MetricValues, m \in MetricValues}
FoldLists == UNION {[1..n -> FoldStatsRecords] : n \in 0..MaxFolds}

\* a list of per-fold stats is about to be aggregated
StatsInit ==
    /\ pc = "idle" /\ method = "" /\ caller = "main" /\ error = "" /\ now = 0
    /\ model = ConstructedModel
    /\ inits = 1
    /\ optimizer = ConstructedOptimizer
    /\ initial_optimizer_state_dict = StateDict(ConstructedOptimizer)
    /\ train_dataset = "None" /\ test_dataset = "None"
    /\ train_loader = NoLoader /\ val_loader = NoLoader /\ test_loader = NoLoader
    /\ num_epochs = 0
    /\ epoch = 0 /\ train_loss = 0 /\ val_loss = 0 /\ best_val_set = Inf
    /\ train_stats = NoValue /\ fit_ret = NoValue
    /\ k = 0 /\ idx = 0 /\ fold_stats = <<>> /\ kfold_ret = NoValue
    /\ files = NoFiles
    /\ train_stats_json = NoFile /\ k_fold_stats_json = NoFile
    /\ trace = <<>> /\ ktrace = <<>>
    /\ grad_enabled = TRUE /\ fwd = <<>>
    /\ test_scores = <<>> /\ y_true = <<>> /\ y_pred = <<>> /\ eval_ret = NoValue
    /\ in_folds \in FoldLists
    /\ kfs = NoValue
    /\ cls = <<>> /\ ops = 0 /\ pred_ret = NoValue /\ last = NoValue
    /\ snap = NoFiles
    /\ args = NoValue
    /\ extractor = "" /\ x_in = NoValue /\ x_out = NoValue

\* KFoldStats(in_folds) is constructed
ConstructKFoldStats ==
    /\ pc = "idle"
    /\ method' = "KFoldStats"
    /\ kfs' = KFoldStats(in_folds)
    /\ pc' = IF kfs' = Raised("ValueError") THEN "raised" ELSE "done"
    /\ error' = IF kfs' = Raised("ValueError") THEN "ValueError" ELSE ""
    /\ UNCHANGED <<caller, now, clf, data, fitv, kfv, disk, hist, grad_enabled,
                   fwd, evalv, in_folds, opsv, extv>>

StatsNext == ConstructKFoldStats

StatsSpec == StatsInit /\ [][StatsNext]_vars

(* ---- store(), load(), predict() and training steps on two classifiers ---- *)
MaxOps == 4
Classifiers == 1..2

\* a path handed to store() or load() by the caller; a path nothing was
\* ever stored at
GivenPath == [name |-> "given.pt"]
MissingPath == [name |-> "missing.pt"]

\* classifier c as its constructor leaves it (lines 210-226): its own freshly
\* initialised model and an optimizer over it
Classifier(c, dir) ==
    [model |-> [ConstructedModel EXCEPT !.init = c - 1],
     optimizer |-> [ConstructedOptimizer EXCEPT !.bound = c - 1],
     initial_optimizer_state_dict |-> StateDict(ConstructedOptimizer),
     train_loader |-> [kind |-> "ctor", batches |-> 1],
     val_loader |-> [kind |-> "ctor", batches |-> 1],
     test_loader |-> NoLoader,
     store_dir |-> dir]

NoCall == [op |-> "", c |-> 0, path |-> NoValue, epoch |-> NoEpoch,
           written |-> NoValue, ok |-> TRUE, before |-> NoValue]

\* _fit_batch (lines 345-357): one optimizer step on the parameters
FitBatch(clf0) ==
    [clf0 EXCEPT !.model.steps = @ + 1, !.optimizer.state = @ + 1]

\* "self.store_dir / Path(...)" with store_dir None raises TypeError
\* (lines 478-481)
StoreFails(clf0, path) == path = NoValue /\ clf0.store_dir = "None"

\* torch.load(path) on the directory content fs (line 492)
TorchLoad(fs, path) ==
    IF path \in DOMAIN fs THEN fs[path] ELSE Raised("FileNotFoundError")

\* (variant: no key of the state dict matches, nothing is copied)
LoadStateDict_Ignore(m, sd) == m

\* model.load_state_dict(sd) (line 492): the values are copied into the
\* model's own tensors; the mode is kept
LoadStateDict(m, sd) == [m EXCEPT !.init = sd.init, !.steps = sd.steps]

\* (variant: the optimizer is put back to its initial state as well)
Load_WithOptimizer(clf0, sd) ==
    [clf0 EXCEPT !.model = LoadStateDict(@, sd),
                 !.optimizer.state = clf0.initial_optimizer_state_dict]

\* load(path) given the state dict read from the file (lines 486-493)
Load(clf0, sd) == [clf0 EXCEPT !.model = LoadStateDict(@, sd)]

\* (variant: the mode is left as it is)
PredictMode_Keep(m) == m

\* "self.model.eval()", line 501
PredictMode(m) == [m EXCEPT !.training = FALSE]

\* the gradient mode inside "with torch.no_grad():" (line 512)
NoGrad(g) == FALSE

OpsInit ==
    /\ pc = "idle" /\ method = "" /\ caller = "main" /\ error = "" /\ now = 0
    /\ model = ConstructedModel
    /\ inits = 1
    /\ optimizer = ConstructedOptimizer
    /\ initial_optimizer_state_dict = StateDict(ConstructedOptimizer)
    /\ train_dataset = "None" /\ test_dataset = "None"
    /\ train_loader = NoLoader /\ val_loader = NoLoader /\ test_loader = NoLoader
    /\ num_epochs = 0
    /\ epoch = 0 /\ train_loss = 0 /\ val_loss = 0 /\ best_val_set = Inf
    /\ train_stats = NoValue /\ fit_ret = NoValue
    /\ k = 0 /\ idx = 0 /\ fold_stats = <<>> /\ kfold_ret = NoValue
    /\ files = NoFiles
    /\ train_stats_json = NoFile /\ k_fold_stats_json = NoFile
    /\ trace = <<>> /\ ktrace = <<>>
    /\ grad_enabled = TRUE /\ fwd = <<>>
    /\ test_scores = <<>> /\ y_true = <<>> /\ y_pred = <<>> /\ eval_ret = NoValue
    /\ in_folds = <<>> /\ kfs = NoValue
    /\ \E d1 \in {"None", "dir"}, d2 \in {"None", "dir"} :
          cls = <<Classifier(1, d1), Classifier(2, d2)>>
    /\ ops = 0 /\ pred_ret = NoValue /\ last = NoCall
    /\ snap = NoFiles
    /\ args = NoValue
    /\ extractor = "" /\ x_in = NoValue /\ x_out = NoValue

\* the variables these calls leave alone
OpsFrame ==
    UNCHANGED <<caller, clf, data, fitv, kfv, train_stats_json, k_fold_stats_json,
                hist, grad_enabled, evalv, statv, extv>>

\* one training step on classifier c
OpsFitBatch(c) ==
    /\ pc = "idle" /\ ops < MaxOps
    /\ method' = "_fit_batch"
    /\ cls' = [cls EXCEPT ![c] = FitBatch(@)]
    /\ fwd' = Append(fwd, [by |-> "_fit_batch", training |-> cls[c].model.training,
                           grad |-> grad_enabled, params |-> Params(cls[c].model)])
    /\ last' = [NoCall EXCEPT !.op = "_fit_batch", !.c = c, !.before = cls[c]]
    /\ ops' = ops + 1
    /\ UNCHANGED <<pc, error, now, files, pred_ret, snap>>
    /\ OpsFrame

\* store(path, e) on classifier c (lines 469-484)
OpsStore(c) ==
    /\ pc = "idle" /\ ops < MaxOps
    /\ method' = "store"
    /\ \E path \in {NoValue, GivenPath}, e \in {NoEpoch, 1}, t \in Clock :
        /\ now' = t
        /\ IF StoreFails(cls[c], path)
           THEN /\ pc' = "raised" /\ error' = "TypeError"
                /\ last' = [NoCall EXCEPT !.op = "store", !.c = c, !.path = path,
                                          !.epoch = e, !.ok = FALSE,
                                          !.before = cls[c]]
                /\ UNCHANGED <<files, snap>>
           ELSE LET w == StorePath(path, e, t)
                IN /\ files' = Store(files, cls[c].model, path, e, t)
                   /\ snap' = [q \in DOMAIN snap \cup {w} |->
                                 IF q = w
                                 THEN [by |-> c, params |-> Params(cls[c].model)]
                                 ELSE snap[q]]
                   /\ last' = [NoCall EXCEPT !.op = "store", !.c = c,
                                             !.path = path, !.epoch = e,
                                             !.written = w, !.before = cls[c]]
                   /\ UNCHANGED <<pc, error>>
    /\ ops' = ops + 1
    /\ UNCHANGED <<cls, fwd, pred_ret>>
    /\ OpsFrame

\* load(path) on classifier c (lines 486-493)
OpsLoad(c) ==
    /\ pc = "idle" /\ ops < MaxOps
    /\ method' = "load"
    /\ \E path \in DOMAIN files \cup {MissingPath} :
        LET sd == TorchLoad(files, path)
        IN /\ IF sd = Raised("FileNotFoundError")
              THEN /\ pc' = "raised" /\ error' = "FileNotFoundError"
                   /\ UNCHANGED cls
              ELSE /\ cls' = [cls EXCEPT ![c] = Load(@, sd)]
                   /\ UNCHANGED <<pc, error>>
           /\ last' = [NoCall EXCEPT !.op = "load", !.c = c, !.path = path,
                                     !.ok = (sd # Raised("FileNotFoundError")),
                                     !.before = cls[c]]
    /\ ops' = ops + 1
    /\ UNCHANGED <<now, files, fwd, pred_ret, snap>>
    /\ OpsFrame

\* predict(snippet) on classifier c (lines 495-518)
OpsPredict(c) ==
    /\ pc = "idle" /\ ops < MaxOps
    /\ method' = "predict"
    /\ cls' = [cls EXCEPT ![c].model = PredictMode(@)]
    /\ fwd' = Append(fwd, [by |-> "predict", training |-> cls'[c].model.training,
                           grad |-> NoGrad(grad_enabled),
                           params |-> Params(cls[c].model)])
    /\ \E out \in Scores : pred_ret' = out
    /\ last' = [NoCall EXCEPT !.op = "predict", !.c = c, !.before = cls[c]]
    /\ ops' = ops + 1
    /\ UNCHANGED <<pc, error, now, files, snap>>
    /\ OpsFrame

OpsNext ==
    \E c \in Classifiers :
        OpsFitBatch(c) \/ OpsStore(c) \/ OpsLoad(c) \/ OpsPredict(c)

OpsSpec == OpsInit /\ [][OpsNext]_vars

(* ---- main.py: the TRAIN command ---- *)
MaxKFoldArg == 2
\* "def k_fold_cv(self, k: int = 10)"
K_FOLD_DEFAULT == 10
\* values of --k-fold (type=int, default 0) and of --evaluate
KFoldArgs == (-1)..MaxKFoldArg
ParsedArgs == [k_fold : KFoldArgs, evaluate : BOOLEAN]

\* the k that "classifier.k_fold_cv()" (main.py line 377) runs with: no
\* argument is passed, so the parameter takes its default
KFoldArgument(a) == K_FOLD_DEFAULT

\* the command line is parsed, nothing is built yet; the run is one with
\* --epochs 0, the passes inside fit() are not at issue here, and it starts
\* late enough for the clock to tick once more
CliInit ==
    /\ pc = "idle" /\ method = "" /\ caller = "main" /\ error = ""
    /\ now = MaxTime - 1
    /\ model = ConstructedModel
    /\ inits = 1
    /\ optimizer = ConstructedOptimizer
    /\ initial_optimizer_state_dict = StateDict(ConstructedOptimizer)
    /\ train_dataset = "None" /\ test_dataset = "None"
    /\ train_loader = NoLoader /\ val_loader = NoLoader /\ test_loader = NoLoader
    /\ num_epochs = 0
    /\ epoch = 0 /\ train_loss = 0 /\ val_loss = 0 /\ best_val_set = Inf
    /\ train_stats = NoValue /\ fit_ret = NoValue
    /\ k = 0 /\ idx = 0 /\ fold_stats = <<>> /\ kfold_ret = NoValue
    /\ files = NoFiles
    /\ train_stats_json = NoFile /\ k_fold_stats_json = NoFile
    /\ trace = <<>> /\ ktrace = <<>>
    /\ grad_enabled = TRUE /\ fwd = <<>>
    /\ test_scores = <<>> /\ y_true = <<>> /\ y_pred = <<>> /\ eval_ret = NoValue
    /\ in_folds = <<>> /\ kfs = NoValue
    /\ cls = <<>> /\ ops = 0 /\ pred_ret = NoValue /\ last = NoValue
    /\ snap = NoFiles
    /\ args \in ParsedArgs
    /\ extractor = "" /\ x_in = NoValue /\ x_out = NoValue

\* _run_train with k_fold == 0 (main.py lines 306-307) and
\* _run_without_cross_validation up to the fit() call (lines 311-344)
MainTrainPlain ==
    /\ pc = "idle"
    /\ args.k_fold = 0
    /\ train_loader' = DatasetLoader("train")
    /\ val_loader' = DatasetLoader("val")
    /\ test_loader' = DatasetLoader("test")
    /\ method' = "fit"
    /\ caller' = "main"
    /\ FitBegin(train_loader', val_loader')
    /\ UNCHANGED <<now, clf, train_dataset, test_dataset, num_epochs, train_loss,
                   val_loss, fit_ret, kfv, disk, ktrace, aux>>

\* "if evaluate: classifier.evaluate()" after fit() returned (lines 347-348)
MainEvaluate ==
    /\ pc = "done"
    /\ method = "fit"
    /\ args.evaluate
    /\ method' = "evaluate"
    /\ model' = [model EXCEPT !.training = FALSE]
    /\ \E acc \in Accuracies : eval_ret' = FoldEvaluation(acc)
    /\ UNCHANGED <<pc, caller, error, now, inits, optimizer,
                   initial_optimizer_state_dict, data, fitv, kfv, disk, hist,
                   grad_enabled, fwd, test_scores, y_true, y_pred, statv, opsv,
                   extv>>

\* _run_train with k_fold != 0 (main.py lines 308-309) and
\* _run_with_cross_validation (lines 351-377): k_fold_cv() up to its loop
MainTrainCV ==
    /\ pc = "idle"
    /\ args.k_fold # 0
    /\ train_dataset' = "dataset"
    /\ test_dataset' = "dataset"
    /\ method' = "k_fold_cv"
    /\ k' = KFoldArgument(args)
    /\ idx' = 0 /\ fold_stats' = <<>>
    /\ pc' = IF SplitKFold(k') > 0 THEN "kf_fold" ELSE "kf_stats"
    /\ error' = ""
    /\ UNCHANGED <<caller, now, clf, loaders, num_epochs, fitv, kfold_ret, disk,
                   hist, aux>>

CliNext ==
    \/ MainTrainPlain \/ MainEvaluate \/ MainTrainCV
    \/ FitSave
    \/ KFoldFit \/ KFoldEvaluate \/ KFoldReset \/ KFoldFinish

CliSpec == CliInit /\ [][CliNext]_vars

(* ---- fit() of models/base_classifier.py (the earlier BaseClassifier) ---- *)
\* no call has returned yet
NotReturned == [kind |-> "not returned"]

\* (variant: the validation loader is required as well)
ModelsLoadersMissing_WithValidation(tl, sl) ==
    tl = NoLoader \/ sl = NoLoader \/ val_loader = NoLoader

\* guards of fit(), models/base_classifier.py lines 64-68
ModelsLoadersMissing(tl, sl) == tl = NoLoader \/ sl = NoLoader

\* the constructor stores the three loaders it is given (lines 47-49)
ModelsInit ==
    /\ pc = "idle" /\ method = "" /\ caller = "main" /\ error = "" /\ now = 0
    /\ model = ConstructedModel
    /\ inits = 1
    /\ optimizer = ConstructedOptimizer
    /\ initial_optimizer_state_dict = StateDict(ConstructedOptimizer)
    /\ train_dataset = "None" /\ test_dataset = "None"
    /\ train_loader \in {NoLoader} \cup Loaders("train")
    /\ test_loader \in {NoLoader} \cup Loaders("test")
    /\ val_loader \in {NoLoader} \cup Loaders("validation")
    /\ num_epochs \in 0..MaxEpochs
    /\ epoch = 0 /\ train_loss = 0 /\ val_loss = 0 /\ best_val_set = Inf
    /\ train_stats = NoValue /\ fit_ret = NotReturned
    /\ k = 0 /\ idx = 0 /\ fold_stats = <<>> /\ kfold_ret = NoValue
    /\ files = NoFiles
    /\ train_stats_json = NoFile /\ k_fold_stats_json = NoFile
    /\ trace = <<>> /\ ktrace = <<>>
    /\ grad_enabled = TRUE /\ fwd = <<>>
    /\ test_scores = <<>> /\ y_true = <<>> /\ y_pred = <<>> /\ eval_ret = NoValue
    /\ in_folds = <<>> /\ kfs = NoValue
    /\ cls = <<>> /\ ops = 0 /\ pred_ret = NoValue /\ last = NoValue
    /\ snap = NoFiles
    /\ args = NoValue
    /\ extractor = "" /\ x_in = NoValue /\ x_out = NoValue

\* entry of fit() (lines 59-70)
ModelsCallFit ==
    /\ pc = "idle"
    /\ method' = "fit"
    /\ IF ModelsLoadersMissing(train_loader, test_loader)
       THEN /\ pc' = "raised" /\ error' = "ValueError"
            /\ UNCHANGED <<epoch, best_val_set, train_stats, trace>>
       ELSE /\ train_stats' = TrainStats(0, <<>>)
            /\ best_val_set' = Inf
            /\ epoch' = 0
            /\ pc' = IF LoopDone(0, num_epochs) THEN "fit_save" ELSE "fit_train"
            /\ error' = ""
            /\ trace' = <<>>
    /\ UNCHANGED aux
    /\ UNCHANGED <<caller, now, clf, data, train_loss, val_loss, fit_ret, kfv, disk,
                   ktrace>>

\* "train_loss = self._fit_epoch()" (line 73; abstract, lines 119-125:
\* "Trains a single epoch"): one optimizer step per batch of train_loader
ModelsFitEpoch ==
    /\ pc = "fit_train"
    /\ \E tl \in TrainLosses : train_loss' = tl
    /\ model' = [model EXCEPT !.training = TRUE,
                              !.steps = @ + train_loader.batches]
    /\ optimizer' = [optimizer EXCEPT !.state = @ + train_loader.batches]
    /\ trace' = Append(trace, [op |-> "train", params |-> Params(model'),
                               loader |-> train_loader.kind])
    /\ pc' = "fit_eval"
    /\ UNCHANGED aux
    /\ UNCHANGED <<method, caller, error, now, inits, initial_optimizer_state_dict,
                   data, epoch, val_loss, best_val_set, train_stats, fit_ret, kfv,
                   disk, ktrace>>

\* "test_loss = self._eval_epoch()" (line 74; abstract, lines 127-133:
\* "Evaluates the model on the test data"): a loss over test_loader, no
\* parameter update; val_loss holds test_loss
ModelsEvalEpoch ==
    /\ pc = "fit_eval"
    /\ \E sl \in Losses :
        /\ val_loss' = sl
        /\ trace' = Append(trace, [op |-> "eval", params |-> Params(model),
                                   loader |-> test_loader.kind, loss |-> sl])
    /\ pc' = "fit_record"
    /\ UNCHANGED aux
    /\ UNCHANGED <<method, caller, error, now, clf, data, epoch, train_loss,
                   best_val_set, train_stats, fit_ret, kfv, disk, ktrace>>

\* rest of the loop body (lines 76-97): record the EpochStats, store the
\* epoch checkpoint, update and store the best model
ModelsRecordEpoch ==
    /\ pc = "fit_record"
    /\ \E t \in Clock :
        LET e == EpochNumber(epoch)
            better == Improves(val_loss, best_val_set)
            fs1 == Store(files, model, NoValue, e, t)
            fs2 == IF better THEN Store(fs1, model, BestModelPath, NoEpoch, t)
                   ELSE fs1
            ev1 == [op |-> "store", epoch |-> e, params |-> Params(model),
                    path |-> StorePath(NoValue, e, t)]
            ev2 == [op |-> "store_best", epoch |-> e, params |-> Params(model)]
        IN /\ train_stats' =
                [train_stats EXCEPT
                    !.epoch_stats = Append(@, EpochStats(e, train_loss, val_loss)),
                    !.best_epoch = IF better THEN e ELSE @]
           /\ best_val_set' = NewBest(val_loss, best_val_set)
           /\ files' = fs2
           /\ now' = t
           /\ trace' = IF better THEN trace \o <<ev1, ev2>> ELSE Append(trace, ev1)
    /\ epoch' = epoch + 1
    /\ pc' = IF LoopDone(epoch + 1, num_epochs) THEN "fit_save" ELSE "fit_train"
    /\ UNCHANGED aux
    /\ UNCHANGED <<method, caller, error, clf, data, train_loss, val_loss, fit_ret,
                   kfv, train_stats_json, k_fold_stats_json, ktrace>>

\* end of fit() (lines 99-105): write train_stats.json; no return statement
ModelsFitSave ==
    /\ pc = "fit_save"
    /\ \E t \in Clock :
        /\ now' = t
        /\ train_stats' = RefreshEndTime(train_stats, t)
        /\ trace' = Append(trace, [op |-> "save_stats", time |-> t])
    /\ train_stats_json' = Dumps(train_stats')
    /\ fit_ret' = NoValue
    /\ pc' = "done"
    /\ UNCHANGED aux
    /\ UNCHANGED <<method, caller, error, clf, data, epoch, train_loss, val_loss,
                   best_val_set, kfv, files, k_fold_stats_json, ktrace>>

ModelsNext ==
    \/ ModelsCallFit
    \/ ModelsFitEpoch
    \/ ModelsEvalEpoch
    \/ ModelsRecordEpoch
    \/ ModelsFitSave

ModelsSpec == ModelsInit /\ [][ModelsNext]_vars

(* ---- the feature extractors: tensor shapes and embedding indices ---- *)
MaxShapeBatch == 2
MaxShapeDelta == 2
MaxSeqLen == 4
MaxPositions == 3
\* the documented input sizes
HEIGHT == 305
WIDTH == 50
IMG_SIZE == 128
CHANNELS == 3
\* BertConfig's default type_vocab_size
TYPE_VOCAB_SIZE == 300

Around(n) == (n - MaxShapeDelta)..(n + MaxShapeDelta)
\* character matrices (batch, height, width) and images (batch, channels,
\* height, width), as shapes
StructuralInputs ==
    {<<b, h, w>> : b \in 1..MaxShapeBatch, h \in Around(HEIGHT), w \in Around(WIDTH)}
VisualInputs ==
    {<<b, CHANNELS, h, w>> : b \in 1..MaxShapeBatch, h \in Around(IMG_SIZE),
                             w \in Around(IMG_SIZE)}
\* inputs of BertEmbedding.forward: input ids (batch of one row, all of token
\* 0), token type ids or None, and the configured max_position_embeddings
SemanticInputs ==
    {[input_ids |-> [i \in 1..L |-> 0], token_type_ids |-> t,
      max_position_embeddings |-> M] :
        L \in 1..MaxSeqLen, M \in 1..MaxPositions, t \in {"None", "given"}}

\* x.unsqueeze(1)
Unsqueeze1(s) == <<s[1], 1>> \o SubSeq(s, 2, Len(s))

\* (variant: "same" padding, the size is kept)
ConvOut_Same(n, ksize, pad) == n

\* output size of nn.Conv2d along one dimension, stride 1
ConvOut(n, ksize, pad) == n + 2 * pad - ksize + 1

\* (variant: ceil_mode=True)
PoolOut_Ceil(n, ksize, stride) == (n - ksize + stride - 1) \div stride + 1

\* output size of nn.MaxPool2d along one dimension (floor mode, no padding)
PoolOut(n, ksize, stride) == (n - ksize) \div stride + 1

Conv2d(s, out_channels, ksize, pad) ==
    <<s[1], out_channels, ConvOut(s[3], ksize, pad), ConvOut(s[4], ksize, pad)>>

MaxPool2d(s, ksize, stride) ==
    <<s[1], s[2], PoolOut(s[3], ksize, stride), PoolOut(s[4], ksize, stride)>>

\* nn.Flatten(): all dimensions after the batch dimension become one
Flatten(s) == <<s[1], s[2] * s[3] * s[4]>>

\* StructuralExtractor.forward (structural_extractor.py lines 61-78) with the
\* layers of __init__ (lines 36-59)
StructuralForward(s) ==
    LET x0 == Unsqueeze1(s)
        x1 == MaxPool2d(Conv2d(x0, 32, 2, 0), 2, 2)
        x2 == MaxPool2d(Conv2d(x1, 32, 2, 0), 2, 2)
        x3 == MaxPool2d(Conv2d(x2, 64, 3, 0), 3, 3)
    IN Flatten(x3)

\* VisualExtractor.forward (visual_extractor.py lines 64-81) with the layers
\* of __init__ (lines 30-62)
VisualForward(s) ==
    LET x1 == MaxPool2d(Conv2d(s, 32, 3, 1), 2, 2)
        x2 == MaxPool2d(Conv2d(x1, 32, 3, 1), 2, 2)
        x3 == MaxPool2d(Conv2d(x2, 64, 3, 1), 3, 3)
    IN Flatten(x3)

\* (variant: the positions are used as they are)
PositionIds_NoWrap(L, M) == [i \in 1..L |-> i - 1]

\* "torch.arange(sequence_length) % num_embeddings"
\* (semantic_extractor.py lines 62-63)
PositionIds(L, M) == [i \in 1..L |-> (i - 1) % M]

\* lines 66-67: absent token type ids become zeros of the shape of input_ids;
\* ids that are given are token type 1 here
TokenTypeIds(t, ids) ==
    IF t = "None" THEN [i \in DOMAIN ids |-> 0] ELSE [i \in DOMAIN ids |-> 1]

\* nn.Embedding(num, ...) applied to ids: IndexError for an id outside
\* 0..num-1, else the rows looked up
EmbeddingLookup(num, ids) ==
    IF \E i \in DOMAIN ids : ids[i] < 0 \/ ids[i] >= num
    THEN Raised("IndexError")
    ELSE [kind |-> "rows", rows |-> [i \in DOMAIN ids |-> ids[i]]]

\* BertEmbedding.forward (semantic_extractor.py lines 52-78): the ids used
\* and the rows looked up, or the exception raised
BertEmbeddingForward(inp) ==
    LET L == Len(inp.input_ids)
        position_ids == PositionIds(L, inp.max_position_embeddings)
        token_type_ids == TokenTypeIds(inp.token_type_ids, inp.input_ids)
        pos == EmbeddingLookup(inp.max_position_embeddings, position_ids)
        typ == EmbeddingLookup(TYPE_VOCAB_SIZE, token_type_ids)
    IN IF pos.kind # "rows" THEN pos
       ELSE IF typ.kind # "rows" THEN typ
       ELSE [kind |-> "embedding",
             position_ids |-> position_ids, token_type_ids |-> token_type_ids,
             position_rows |-> pos.rows, token_type_rows |-> typ.rows]

ExtractorInit ==
    /\ pc = "idle" /\ method = "" /\ caller = "main" /\ error = "" /\ now = 0
    /\ model = ConstructedModel
    /\ inits = 1
    /\ optimizer = ConstructedOptimizer
    /\ initial_optimizer_state_dict = StateDict(ConstructedOptimizer)
    /\ train_dataset = "None" /\ test_dataset = "None"
    /\ train_loader = NoLoader /\ val_loader = NoLoader /\ test_loader = NoLoader
    /\ num_epochs = 0
    /\ epoch = 0 /\ train_loss = 0 /\ val_loss = 0 /\ best_val_set = Inf
    /\ train_stats = NoValue /\ fit_ret = NoValue
    /\ k = 0 /\ idx = 0 /\ fold_stats = <<>> /\ kfold_ret = NoValue
    /\ files = NoFiles
    /\ train_stats_json = NoFile /\ k_fold_stats_json = NoFile
    /\ trace = <<>> /\ ktrace = <<>>
    /\ grad_enabled = TRUE /\ fwd = <<>>
    /\ test_scores = <<>> /\ y_true = <<>> /\ y_pred = <<>> /\ eval_ret = NoValue
    /\ in_folds = <<>> /\ kfs = NoValue
    /\ cls = <<>> /\ ops = 0 /\ pred_ret = NoValue /\ last = NoValue
    /\ snap = NoFiles
    /\ args = NoValue
    /\ \/ extractor = "structural" /\ x_in \in StructuralInputs
       \/ extractor = "visual" /\ x_in \in VisualInputs
       \/ extractor = "semantic" /\ x_in \in SemanticInputs
    /\ x_out = NoValue

ExtractorFrame ==
    UNCHANGED <<caller, now, clf, data, fitv, kfv, disk, hist, grad_enabled, fwd,
                evalv, statv, opsv, cliv, extractor, x_in>>

StructuralExtract ==
    /\ pc = "idle" /\ extractor = "structural"
    /\ method' = "forward"
    /\ x_out' = StructuralForward(x_in)
    /\ pc' = "done" /\ error' = ""
    /\ ExtractorFrame

VisualExtract ==
    /\ pc = "idle" /\ extractor = "visual"
    /\ method' = "forward"
    /\ x_out' = VisualForward(x_in)
    /\ pc' = "done" /\ error' = ""
    /\ ExtractorFrame

SemanticEmbed ==
    /\ pc = "idle" /\ extractor = "semantic"
    /\ method' = "forward"
    /\ LET r == BertEmbeddingForward(x_in)
       IN IF r.kind # "embedding"
          THEN /\ pc' = "raised" /\ error' = r.error /\ x_out' = NoValue
          ELSE /\ pc' = "done" /\ error' = "" /\ x_out' = r
    /\ ExtractorFrame

ExtractorNext == StructuralExtract \/ VisualExtract \/ SemanticEmbed

ExtractorSpec == ExtractorInit /\ [][ExtractorNext]_vars

Next ==
    \/ CallFit \/ FitEpoch \/ ValEpoch \/ RecordEpoch \/ FitSave \/ BatchFails
    \/ CallKFold \/ KFoldFit \/ KFoldEvaluate \/ KFoldReset \/ KFoldFinish

Spec == Init /\ [][Next]_vars

TypeOK ==
    /\ pc \in {"idle", "done", "fit_train", "fit_val", "fit_record", "fit_save",
               "kf_fold", "kf_eval", "kf_reset", "kf_stats", "raised"}
    /\ method \in {"", "fit", "k_fold_cv"}
    /\ epoch \in 0..MaxEpochs
    /\ now \in 0..MaxTime
    /\ best_val_set \in Losses

(* ---- reading the histories ---- *)

Min(S) == CHOOSE a \in S : \A b \in S : a <= b
Last(sq) == sq[Len(sq)]
IsPass(ev) == ev.op \in {"train", "val"}
IsTrain(ev) == ev.op = "train"
IsStore(ev) == ev.op = "store"
IsPassOrStore(ev) == ev.op \in {"train", "val", "store"}
IsSaveStats(ev) == ev.op = "save_stats"
IsFit(ev) == ev.op = "fit"
IsEvaluate(ev) == ev.op = "evaluate"
Ops(tr) == [i \in 1..Len(tr) |-> tr[i].op]
\* sq starts with repetitions of the cycle cyc
FollowsCycle(sq, cyc) ==
    \A i \in 1..Len(sq) : sq[i] = cyc[((i - 1) % Len(cyc)) + 1]
InFit == pc \in {"fit_train", "fit_val", "fit_record", "fit_save"}
\* the current fit() call has returned
FitReturned == trace # <<>> /\ Last(trace).op = "save_stats"
\* the k_fold_cv() call has returned
KFoldReturned == method = "k_fold_cv" /\ pc = "done"
ValLossesOf(ts) == {ts.epoch_stats[i].test_loss : i \in 1..Len(ts.epoch_stats)}
BestFile(fs) == IF BestModelPath \in DOMAIN fs THEN fs[BestModelPath] ELSE NoValue

(* ---- claims ---- *)

\* C1: fit() called with a null training loader or a null validation loader
\* ends with a ValueError before any training or validation epoch has run and
\* before any checkpoint or train_stats.json has been written.
C1_FitRejectsNullLoaders ==
    (method = "fit" /\ (train_loader = NoLoader \/ val_loader = NoLoader))
        => /\ pc = "raised" /\ error = "ValueError"
           /\ trace = <<>>
           /\ model = ConstructedModel /\ optimizer = ConstructedOptimizer
           /\ files = NoFiles /\ train_stats_json = NoFile
           /\ fit_ret = NoValue

C1_Witness ==
    /\ method = "fit" /\ pc = "raised"
    /\ train_loader # NoLoader /\ val_loader = NoLoader

\* C2: in every epoch of fit(), best_model.pt is written (and best_epoch set to
\* that epoch) exactly when the epoch's validation loss is strictly below the
\* lowest validation loss of the earlier epochs of this call (+infinity when
\* there is none); otherwise, a tie included, best_model.pt and best_epoch
\* stay as they were.
C2_BestWrittenIffStrictlyLower ==
    [][pc = "fit_record" =>
        LET lowest == Min(ValLossesOf(train_stats) \cup {Inf})
        IN IF val_loss < lowest
           THEN /\ BestFile(files') = Params(model)
                /\ BestFile(files') # BestFile(files)
                /\ train_stats'.best_epoch = Len(train_stats.epoch_stats) + 1
           ELSE /\ BestFile(files') = BestFile(files)
                /\ train_stats'.best_epoch = train_stats.best_epoch]_vars

\* an epoch tied the best loss so far and did not become the best epoch
C2_Witness ==
    /\ InFit /\ Len(train_stats.epoch_stats) >= 2
    /\ train_stats.epoch_stats[1].test_loss = train_stats.epoch_stats[2].test_loss
    /\ train_stats.epoch_stats[1].test_loss < Inf
    /\ train_stats.best_epoch = 1
    /\ BestFile(files) = trace[1].params

\* C3 as stated: the serialized best_epoch is the index of the epoch whose
\* validation loss is the minimum over all epochs run, the earliest such
\* epoch; for every num_epochs and every sequence of validation losses.
C3_Original ==
    train_stats_json # NoFile =>
        LET es == train_stats_json.epoch_stats
            b == train_stats_json.best_epoch
        IN /\ b \in 1..Len(es)
           /\ \A j \in 1..Len(es) : es[b].test_loss <= es[j].test_loss
           /\ \A j \in 1..(b - 1) : es[j].test_loss > es[b].test_loss

\* C3 amended: the serialized best_epoch is the earliest epoch attaining the
\* minimum validation loss whenever some epoch had a validation loss below
\* +infinity, and it is 0 when there was no such epoch (no epoch run, or every
\* validation loss +infinity).
C3_BestEpochIsEarliestMinimum ==
    train_stats_json # NoFile =>
        LET es == train_stats_json.epoch_stats
            b == train_stats_json.best_epoch
        IN IF \E j \in 1..Len(es) : es[j].test_loss < Inf
           THEN /\ b \in 1..Len(es)
                /\ \A j \in 1..Len(es) : es[b].test_loss <= es[j].test_loss
                /\ \A j \in 1..(b - 1) : es[j].test_loss > es[b].test_loss
           ELSE b = 0

\* the minimum is attained twice, first in epoch 2, and 2 is the best epoch
C3_Witness ==
    /\ train_stats_json # NoFile
    /\ Len(train_stats_json.epoch_stats) >= 3
    /\ train_stats_json.epoch_stats[1].test_loss > train_stats_json.epoch_stats[2].test_loss
    /\ train_stats_json.epoch_stats[2].test_loss = train_stats_json.epoch_stats[3].test_loss
    /\ train_stats_json.best_epoch = 2

\* C4: fit() writes exactly one per-epoch checkpoint for each epoch e of
\* 1..num_epochs, after the validation pass of epoch e and before the training
\* pass of epoch e+1, and the file holds the parameters the model had at the
\* end of the training pass of epoch e.
C4_OneCheckpointPerEpoch ==
    LET stores == SelectSeq(trace, IsStore)
        trains == SelectSeq(trace, IsTrain)
    IN /\ FollowsCycle(Ops(SelectSeq(trace, IsPassOrStore)), <<"train", "val", "store">>)
       /\ \A i \in 1..Len(stores) :
            /\ stores[i].epoch = i
            /\ stores[i].params = trains[i].params
            /\ stores[i].path \in DOMAIN files
            /\ files[stores[i].path] = trains[i].params
            /\ \A j \in 1..Len(stores) : j # i => stores[j].path # stores[i].path
       /\ Len(stores) <= num_epochs
       /\ FitReturned => Len(stores) = num_epochs
       /\ method = "fit" =>
            {p \in DOMAIN files : p # BestModelPath} =
                {stores[i].path : i \in 1..Len(stores)}

\* a returned fit() whose first two checkpoints were written in the same second
C4_Witness ==
    /\ FitReturned /\ method = "fit" /\ num_epochs >= 2
    /\ LET stores == SelectSeq(trace, IsStore)
       IN /\ stores[1].path.time = stores[2].path.time
          /\ files[stores[1].path] # files[stores[2].path]

\* C5: fit() runs exactly num_epochs passes, each one training epoch followed
\* by one validation epoch, and appends one EpochStats per pass: when it
\* returns, epoch_stats has length num_epochs and its epoch fields are
\* 1, 2, ..., num_epochs in this order.
C5_ExactlyNumEpochsPasses ==
    LET passes == Ops(SelectSeq(trace, IsPass))
    IN /\ FollowsCycle(passes, <<"train", "val">>)
       /\ Len(passes) <= 2 * num_epochs
       /\ train_stats # NoValue =>
            LET es == train_stats.epoch_stats
            IN /\ \A i \in 1..Len(es) : es[i].epoch = i
               /\ 2 * Len(es) <= Len(passes)
               /\ Len(passes) <= 2 * Len(es) + 2
               /\ pc \in {"fit_train", "fit_save"} => Len(passes) = 2 * Len(es)
       /\ FitReturned =>
            /\ Len(passes) = 2 * num_epochs
            /\ Len(fit_ret.epoch_stats) = num_epochs
            /\ \A i \in 1..num_epochs : fit_ret.epoch_stats[i].epoch = i

C5_Witness ==
    /\ FitReturned /\ method = "fit" /\ num_epochs >= 3
    /\ Len(fit_ret.epoch_stats) = num_epochs
    /\ fit_ret.epoch_stats[3].epoch = 3

\* C6: fit() writes train_stats.json exactly once, after the last epoch has
\* completed and never between epochs, with end_time set to the time of that
\* serialization, and returns the TrainStats whose content was written.
C6_StatsWrittenOnceAtEnd ==
    LET saves == SelectSeq(trace, IsSaveStats)
    IN /\ Len(saves) <= 1
       /\ InFit => Len(saves) = 0
       /\ (InFit /\ method = "fit") => train_stats_json = NoFile
       /\ Len(saves) = 1 =>
            /\ Last(trace).op = "save_stats"
            /\ Len(SelectSeq(trace, IsStore)) = num_epochs
            /\ Len(SelectSeq(trace, IsPass)) = 2 * num_epochs
            /\ train_stats_json = fit_ret
            /\ fit_ret = train_stats
            /\ fit_ret.end_time = saves[1].time

C6_Witness ==
    /\ FitReturned /\ method = "fit" /\ num_epochs >= 1
    /\ train_stats_json = fit_ret
    /\ fit_ret.end_time > fit_ret.start_time

\* C7: when k_fold_cv(k) returns, over a training dataset split into k folds,
\* the fold_stats of the returned KFoldStats has exactly k entries and its
\* i-th entry is the EvaluationStats of the evaluation made in the i-th fold.
C7_OneEvaluationPerFold ==
    KFoldReturned =>
        LET evs == SelectSeq(ktrace, IsEvaluate)
        IN /\ Len(kfold_ret.fold_stats) = k
           /\ Len(evs) = k
           /\ \A i \in 1..k : /\ evs[i].fold = i - 1
                              /\ kfold_ret.fold_stats[i] = evs[i].stats

C7_Witness ==
    /\ KFoldReturned /\ k >= 2
    /\ kfold_ret.fold_stats[1] # kfold_ret.fold_stats[2]

\* C8: every fold of k_fold_cv runs fit(), then evaluate(), then the reset of
\* model and optimizer: evaluate() sees the parameters its fold's fit() left,
\* every fold after the first starts from the reset model, and when
\* k_fold_cv returns the model is a fresh initialisation whose parameters are
\* those of no fold's trained model.
C8_FitEvaluateResetPerFold ==
    /\ FollowsCycle(Ops(ktrace), <<"fit", "evaluate", "reset">>)
    /\ \A i \in 1..Len(ktrace) :
        /\ ktrace[i].fold = (i - 1) \div 3
        /\ ktrace[i].op = "evaluate" => ktrace[i].params = ktrace[i - 1].params
        /\ ktrace[i].op = "reset" =>
            /\ ktrace[i].params.steps = 0
            /\ \A j \in 1..(i - 1) : ktrace[j].params # ktrace[i].params
        /\ (ktrace[i].op = "fit" /\ i > 1) =>
            ktrace[i].params.init = ktrace[i - 1].params.init
    /\ pc = "kf_eval" =>
        /\ Last(ktrace).op = "fit" /\ Last(ktrace).params = Params(model)
        /\ LET trains == SelectSeq(trace, IsTrain)
           IN trains # <<>> => Last(trains).params = Params(model)
    /\ pc = "kf_reset" => Last(ktrace).op = "evaluate"
    /\ (pc = "kf_fold" /\ idx > 0) =>
        Last(ktrace).op = "reset" /\ Last(ktrace).params = Params(model)
    /\ KFoldReturned =>
        /\ Len(ktrace) = 3 * k
        /\ Last(ktrace).op = "reset" /\ Last(ktrace).params = Params(model)
        /\ model.steps = 0
        /\ \A i \in 1..Len(ktrace) :
            ktrace[i].op = "fit" => ktrace[i].params # Params(model)

C8_Witness ==
    /\ KFoldReturned /\ k >= 2 /\ num_epochs >= 1
    /\ ktrace[1].params.steps > 0 /\ ktrace[4].params.steps > 0
    /\ model.steps = 0

\* C9: after every fold of k_fold_cv the optimizer state equals the state
\* captured when the classifier was constructed, never a state produced by
\* training; and training never alters the captured state.
C9_OptimizerResetToInitialState ==
    /\ initial_optimizer_state_dict = StateDict(ConstructedOptimizer)
    /\ ((pc \in {"kf_fold", "kf_stats"} /\ idx > 0) \/ KFoldReturned) =>
        /\ optimizer.state = initial_optimizer_state_dict
        /\ optimizer.state = StateDict(ConstructedOptimizer)

\* a fold has trained the optimizer and the reset has been made
C9_Witness ==
    /\ pc = "kf_fold" /\ idx > 0
    /\ ktrace[1].params.steps > 0
    /\ optimizer.state = 0

\* C10: k_fold_cv with a null training dataset or a null test dataset ends
\* with a ValueError at once: no fold is split, trained or evaluated, and
\* model, optimizer, loaders and the files of the store directory are as
\* before the call.
C10_KFoldRejectsNullDatasets ==
    [][/\ (/\ pc = "idle" /\ method' = "k_fold_cv"
           /\ (train_dataset = "None" \/ test_dataset = "None"))
          => /\ pc' = "raised" /\ error' = "ValueError"
             /\ ktrace' = <<>> /\ trace' = <<>> /\ fold_stats' = <<>>
             /\ UNCHANGED <<clf, loaders, disk>>
       /\ pc # "raised"]_vars

C10_Witness ==
    /\ method = "k_fold_cv" /\ pc = "raised" /\ error = "ValueError"
    /\ train_dataset = "dataset" /\ test_dataset = "None"

(* ---- reading an evaluate() run ---- *)

\* the samples of the test set: batch number and position in the batch
Samples == {bj \in (1..Len(test_scores)) \X (1..MaxBatchSize + 1) :
              bj[2] <= Len(test_scores[bj[1]])}
\* all batches went through the model
AllBatchesSeen == Len(y_pred) = Len(test_scores)
TruePositive(bj) == test_scores[bj[1]][bj[2]] >= Threshold
PredPositive(bj) == y_pred[bj[1]][bj[2]] >= Threshold
NumTP == Cardinality({bj \in Samples : TruePositive(bj) /\ PredPositive(bj)})
NumFP == Cardinality({bj \in Samples : ~TruePositive(bj) /\ PredPositive(bj)})
NumFN == Cardinality({bj \in Samples : TruePositive(bj) /\ ~PredPositive(bj)})
NumTN == Cardinality({bj \in Samples : ~TruePositive(bj) /\ ~PredPositive(bj)})
\* the rational r is n/d
IsRatio(r, n, d) == r.den # 0 /\ d # 0 /\ r.num * d = n * r.den
IsOne(r) == r.den # 0 /\ r.num = r.den
IsZero(r) == r.den # 0 /\ r.num = 0
\* the correlation m, num/sqrt(den_sq), is 1
MccIsOne(m) == m.num > 0 /\ m.num * m.num = m.den_sq
EvaluateReturned == method = "evaluate" /\ pc = "done"
\* evaluate() ran to its end, normally or not
EvaluateEnded == method = "evaluate" /\ pc \in {"done", "raised"}
                    /\ test_loader # NoLoader
\* thresholded outputs equal thresholded ground truth on every sample
PerfectPredictor ==
    AllBatchesSeen /\ \A bj \in Samples : PredPositive(bj) <=> TruePositive(bj)
\* the thresholded ground truth holds both labels
BothLabels == (\E bj \in Samples : TruePositive(bj))
                  /\ (\E bj \in Samples : ~TruePositive(bj))

\* C11: evaluate() called with a null test loader fails with a ValueError,
\* and at that point the model is still in the mode it was constructed in
\* (training mode, never switched to evaluation mode) and no forward pass
\* has been made.
C11_EvaluateRejectsNullLoader ==
    (method = "evaluate" /\ test_loader = NoLoader) =>
        /\ pc = "raised" /\ error = "ValueError"
        /\ model = ConstructedModel
        /\ fwd = <<>> /\ y_pred = <<>>
        /\ eval_ret = NoValue

C11_Witness ==
    method = "evaluate" /\ test_loader = NoLoader /\ pc = "raised"

\* C12: every forward pass made by evaluate() runs with the model in
\* evaluation mode and with gradient computation disabled.
C12_ForwardPassesEvalModeNoGrad ==
    \A i \in 1..Len(fwd) :
        fwd[i].by = "evaluate" => (~fwd[i].training /\ ~fwd[i].grad)

\* C13: when evaluate() returns, every metric of the returned stats is the
\* one computed from the binary labels (score >= 0.5 gives 1, anything else
\* 0, for outputs and ground truth alike) of all samples of all batches, the
\* i-th output of batch b paired with the i-th ground-truth score of batch b.
C13_MetricsFromThresholdedLabels ==
    EvaluateReturned =>
        /\ AllBatchesSeen
        /\ \A b \in 1..Len(test_scores) :
              y_true[b] = test_scores[b] /\ Len(y_pred[b]) = Len(test_scores[b])
        /\ IsRatio(eval_ret.accuracy, NumTP + NumTN, Cardinality(Samples))
        /\ IF NumTP + NumFP = 0 THEN IsZero(eval_ret.precision)
           ELSE IsRatio(eval_ret.precision, NumTP, NumTP + NumFP)
        /\ IF NumTP + NumFN = 0 THEN IsZero(eval_ret.recall)
           ELSE IsRatio(eval_ret.recall, NumTP, NumTP + NumFN)
        /\ IF NumTP + NumFP + NumFN = 0 THEN IsZero(eval_ret.f1)
           ELSE IsRatio(eval_ret.f1, 2 * NumTP, 2 * NumTP + NumFP + NumFN)
        /\ IF BothLabels
           THEN IsRatio(eval_ret.auc,
                        NumTP * (NumTN + NumFP) + NumTN * (NumTP + NumFN),
                        2 * (NumTP + NumFN) * (NumTN + NumFP))
           ELSE eval_ret.auc = NaN
        /\ LET d == (NumTP + NumFP) * (NumTP + NumFN)
                        * (NumTN + NumFP) * (NumTN + NumFN)
           IN IF d = 0 THEN eval_ret.mcc.num = 0
              ELSE /\ eval_ret.mcc.num = NumTP * NumTN - NumFP * NumFN
                   /\ eval_ret.mcc.den_sq = d

C13_Witness ==
    /\ EvaluateReturned
    /\ Len(test_scores) = 2
    /\ \E bj \in Samples : test_scores[bj[1]][bj[2]] = Threshold
    /\ \E bj \in Samples : y_pred[bj[1]][bj[2]] = Threshold
    /\ NumFP > 0 /\ NumTP > 0 /\ NumTN > 0

\* C14 as stated: for every test set, evaluate() on a perfectly-predicting
\* model returns stats with accuracy = precision = recall = f1 = mcc = 1.0.
C14_Original ==
    (EvaluateEnded /\ PerfectPredictor) =>
        /\ pc = "done"
        /\ IsOne(eval_ret.accuracy) /\ IsOne(eval_ret.precision)
        /\ IsOne(eval_ret.recall) /\ IsOne(eval_ret.f1)
        /\ MccIsOne(eval_ret.mcc)

\* C14, amended: on a test set whose thresholded ground truth holds both
\* labels, evaluate() on a perfectly-predicting model returns accuracy =
\* precision = recall = f1 = mcc = 1.0 (and auc = 1.0).  On a test set with
\* one label only, or with no sample, it does not: evaluate() raises
\* ValueError, or returns stats whose auc is nan and whose mcc is 0.0.
C14_PerfectOnTwoLabelTestSet ==
    (EvaluateEnded /\ PerfectPredictor) =>
        IF BothLabels
        THEN /\ pc = "done"
             /\ IsOne(eval_ret.accuracy) /\ IsOne(eval_ret.precision)
             /\ IsOne(eval_ret.recall) /\ IsOne(eval_ret.f1)
             /\ IsOne(eval_ret.auc)
             /\ MccIsOne(eval_ret.mcc)
        ELSE \/ pc = "raised" /\ error = "ValueError" /\ eval_ret = NoValue
             \/ pc = "done" /\ eval_ret.auc = NaN /\ eval_ret.mcc.num = 0

C14_Witness ==
    /\ EvaluateReturned /\ PerfectPredictor /\ BothLabels
    /\ \E bj \in Samples : y_pred[bj[1]][bj[2]] # test_scores[bj[1]][bj[2]]

(* ---- reading a KFoldStats construction ---- *)

MetricNames == {"accuracy", "precision", "recall", "f1", "auc", "mcc"}
\* the fields of KFoldStats that aggregate each metric
AggregateFields ==
    [accuracy |-> <<"max_accuracy", "min_accuracy", "mean_accuracy", "std_accuracy">>,
     precision |-> <<"max_precision", "min_precision", "mean_precision", "std_precision">>,
     recall |-> <<"max_recall", "min_recall", "mean_recall", "std_recall">>,
     f1 |-> <<"max_f1", "min_f1", "mean_f1", "std_f1">>,
     auc |-> <<"max_auc", "min_auc", "mean_auc", "std_auc">>,
     mcc |-> <<"max_mcc", "min_mcc", "mean_mcc", "std_mcc">>]
KFoldStatsBuilt == method = "KFoldStats" /\ pc = "done"

\* C15: for a non-empty list of per-fold stats and each of the six metrics
\* X, the constructed KFoldStats has max_X and min_X equal to the largest and
\* smallest X of the folds, mean_X equal to the sum of the X divided by the
\* number of folds, std_X equal to the population standard deviation (the
\* square root of the mean of the squares minus the square of the mean), and
\* fold_stats equal to the given list, order kept.
C15_AggregatesAreReductions ==
    (KFoldStatsBuilt /\ in_folds # <<>>) =>
        /\ kfs.fold_stats = in_folds
        /\ \A X \in MetricNames :
            LET n == Len(in_folds)
                s == SeqSum([i \in 1..n |-> in_folds[i][X]])
                q == SeqSum([i \in 1..n |-> in_folds[i][X] * in_folds[i][X]])
                mx == kfs[AggregateFields[X][1]]
                mn == kfs[AggregateFields[X][2]]
                mean == kfs[AggregateFields[X][3]]
                std == kfs[AggregateFields[X][4]]
            IN /\ \E i \in 1..n : in_folds[i][X] = mx
               /\ \A i \in 1..n : in_folds[i][X] <= mx
               /\ \E i \in 1..n : in_folds[i][X] = mn
               /\ \A i \in 1..n : mn <= in_folds[i][X]
               /\ mean.den # 0 /\ mean.num * n = s * mean.den
               /\ std.sq_den # 0
               /\ std.sq_num * n * n = (n * q - s * s) * std.sq_den

C15_Witness ==
    /\ KFoldStatsBuilt /\ Len(in_folds) = 2
    /\ \A X \in MetricNames : in_folds[1][X] # in_folds[2][X]
    /\ in_folds[1].accuracy > in_folds[2].accuracy
    /\ in_folds[1].mcc < in_folds[2].mcc
    /\ kfs.std_f1.sq_num > 0

\* C16: k_fold_cv() over zero folds reaches the aggregation with an empty
\* fold list and ends there with the ValueError raised by the KFoldStats
\* constructor: no KFoldStats is returned and k_fold_stats.json is not
\* written.
C16_EmptyFoldListRaises ==
    (method = "k_fold_cv" /\ pc \in {"done", "raised"} /\ SplitKFold(k) = 0) =>
        /\ fold_stats = <<>>
        /\ pc = "raised" /\ error = "ValueError"
        /\ kfold_ret = NoValue
        /\ k_fold_stats_json = NoFile

C16_Witness ==
    /\ method = "k_fold_cv" /\ pc = "raised" /\ error = "ValueError"
    /\ ~DatasetsMissing(train_dataset, test_dataset)
    /\ SplitKFold(k) = 0 /\ fold_stats = <<>> /\ ktrace = <<>>
    /\ k_fold_stats_json = NoFile

(* ---- reading the calls on the two classifiers ---- *)

\* this step is a call of method m that returned normally
Returns(m) == ops' = ops + 1 /\ last'.op = m /\ last'.ok
OtherClassifiersKept(c) == \A d \in Classifiers \ {c} : cls'[d] = cls[d]

C18_StoreLoadFrame ==
    [][/\ (ops' = ops + 1 /\ last'.op = "store") =>
            /\ cls' = cls
            /\ ~last'.ok => files' = files
            /\ last'.ok =>
                LET c == last'.c
                    w == last'.written
                IN /\ DOMAIN files' = DOMAIN files \cup {w}
                   /\ files'[w] = Params(cls[c].model)
                   /\ \A q \in DOMAIN files \ {w} : files'[q] = files[q]
                   /\ last'.path # NoValue => w = last'.path
                   /\ (last'.path = NoValue /\ last'.epoch = NoEpoch) =>
                         w = [name |-> "model", time |-> now']
                   /\ (last'.path = NoValue /\ last'.epoch # NoEpoch) =>
                         w = [name |-> "model", time |-> now',
                              epoch |-> last'.epoch]
       /\ Returns("load") =>
            LET c == last'.c
            IN /\ cls'[c] = [cls[c] EXCEPT !.model.init = cls'[c].model.init,
                                           !.model.steps = cls'[c].model.steps]
               /\ OtherClassifiersKept(c)
               /\ files' = files
      ]_vars

\* all three kinds of file were written, a classifier loaded one that the
\* other classifier had stored
C18_Witness ==
    /\ last.op = "load" /\ last.ok
    /\ snap[last.path].by # last.c
    /\ Params(cls[last.c].model) # Params(last.before.model)
    /\ GivenPath \in DOMAIN files
    /\ \E q \in DOMAIN files : DOMAIN q = {"name", "time"}
    /\ \E q \in DOMAIN files : DOMAIN q = {"name", "time", "epoch"}

\* C19: a predict() call makes exactly one forward pass, with the model in
\* evaluation mode and gradient computation disabled; it leaves the model's
\* parameters and the optimizer (so: no optimizer step) as they were, and
\* the other classifier and the files too.
C19_PredictFrame ==
    [][Returns("predict") =>
        LET c == last'.c
        IN /\ Len(fwd') = Len(fwd) + 1
           /\ \A i \in 1..Len(fwd) : fwd'[i] = fwd[i]
           /\ fwd'[Len(fwd')].by = "predict"
           /\ ~fwd'[Len(fwd')].training
           /\ ~fwd'[Len(fwd')].grad
           /\ fwd'[Len(fwd')].params = Params(cls[c].model)
           /\ ~cls'[c].model.training
           /\ Params(cls'[c].model) = Params(cls[c].model)
           /\ cls'[c].optimizer = cls[c].optimizer
           /\ OtherClassifiersKept(c)
           /\ files' = files
           /\ grad_enabled' = grad_enabled
      ]_vars

\* predict() on a model that had trained and was in training mode
C19_Witness ==
    /\ last.op = "predict" /\ last.ok
    /\ last.before.model.training
    /\ last.before.model.steps > 0
    /\ ~cls[last.c].model.training
    /\ pred_ret \in Scores

\* C20: a batch that fails in the training or validation pass of epoch e
\* ends fit() there with the error: the failing step records no EpochStats,
\* writes no checkpoint and no train_stats.json and returns nothing; at that
\* point the stats and the checkpoints are those of epochs 1..e-1 only, each
\* per-epoch checkpoint of this call is on disk with the parameters it was
\* written with; and nothing runs after the error (no retry, no later epoch).
C20_BatchFailureEndsFit ==
    [][/\ pc # "raised"
       /\ (pc \in {"fit_train", "fit_val"} /\ error' = "RuntimeError") =>
            /\ pc' = "raised"
            /\ UNCHANGED <<train_stats, fit_ret, files, train_stats_json,
                           k_fold_stats_json, trace, epoch>>
            /\ Len(train_stats.epoch_stats) = epoch
            /\ \A i \in 1..Len(train_stats.epoch_stats) :
                  train_stats.epoch_stats[i].epoch <= epoch
            /\ \A i \in 1..Len(trace) :
                  /\ trace[i].op # "save_stats"
                  /\ trace[i].op \in {"store", "store_best"} =>
                        trace[i].epoch <= epoch
                  /\ trace[i].op = "store" =>
                        /\ trace[i].path \in DOMAIN files'
                        /\ files'[trace[i].path] = trace[i].params
      ]_vars

\* the validation pass of the second epoch of a fit() call failed
C20_Witness ==
    /\ method = "fit" /\ pc = "raised" /\ error = "RuntimeError"
    /\ epoch = 1 /\ Len(train_stats.epoch_stats) = 1
    /\ Last(trace).op = "train"
    /\ ~model.training
    /\ BestModelPath \in DOMAIN files
    /\ train_stats_json = NoFile

(* ---- reading a run of the TRAIN command ---- *)

\* cross-validation is running or has run
CrossValidating == method = "k_fold_cv"

\* C21: the TRAIN command runs no cross-validation when --k-fold is 0, and
\* when --k-fold is K # 0 the cross-validation it runs is one over exactly K
\* folds.
C21_KFoldArgIsNumberOfFolds ==
    /\ args.k_fold = 0 => ~CrossValidating
    /\ (args.k_fold # 0 /\ CrossValidating) =>
          /\ SplitKFold(k) = args.k_fold
          /\ pc = "done" => Len(fold_stats) = args.k_fold

(* ---- reading a forward pass of an extractor ---- *)

ForwardDone(e) == extractor = e /\ method = "forward" /\ pc \in {"done", "raised"}

\* C22: the structural extractor maps an input of shape (1, 305, 50) to an
\* output of shape (1, 41472).
C22_StructuralOutputIs41472 ==
    (ForwardDone("structural") /\ x_in = <<1, HEIGHT, WIDTH>>) =>
        (pc = "done" /\ x_out = <<1, 41472>>)

C25_PositionIdsWrap ==
    ForwardDone("semantic") =>
        LET L == Len(x_in.input_ids)
            M == x_in.max_position_embeddings
        IN /\ pc = "done"
           /\ Len(x_out.position_ids) = L
           /\ \A i \in 1..L :
                /\ x_out.position_ids[i] \in 0..(M - 1)
                /\ \E q \in 0..L : (i - 1) = q * M + x_out.position_ids[i]
                /\ x_out.position_rows[i] = x_out.position_ids[i]
           /\ x_in.token_type_ids = "None" =>
                /\ Len(x_out.token_type_ids) = L
                /\ \A i \in 1..L : x_out.token_type_ids[i] = 0

C25_Witness ==
    /\ ForwardDone("semantic") /\ pc = "done"
    /\ Len(x_in.input_ids) > x_in.max_position_embeddings
    /\ x_in.max_position_embeddings > 1
    /\ x_in.token_type_ids = "None"
    /\ x_out.position_ids[Len(x_in.input_ids)] = 0

(* ---- the times a TrainStats carries ---- *)


\* C26: every TrainStats created by fit() carries the time at which the
\* class was defined as start_time, whatever the time at which fit() was
\* called: the TrainStats of the fit() calls of different folds have equal
\* start_time; while the epochs run end_time is that same time, and in the
\* returned and serialized TrainStats only end_time is the time of the
\* serialization.
C26_StartTimeIsClassDefinitionTime ==
    LET fits == SelectSeq(ktrace, IsFit)
    IN /\ (InFit \/ FitReturned) => train_stats.start_time = CLASS_DEF_TIME
       /\ InFit => train_stats.end_time = CLASS_DEF_TIME
       /\ FitReturned =>
            /\ fit_ret.start_time = CLASS_DEF_TIME
            /\ train_stats_json.start_time = CLASS_DEF_TIME
            /\ fit_ret.end_time = Last(trace).time
            /\ train_stats_json.end_time = Last(trace).time
       /\ \A i, j \in 1..Len(fits) :
            /\ fits[i].stats.start_time = fits[j].stats.start_time
            /\ fits[i].stats.start_time = CLASS_DEF_TIME
            /\ i < j => fits[i].stats.end_time <= fits[j].stats.end_time

\* two fit() calls, the second one begun after the class definition time
\* and serialized later than the first
C26_Witness ==
    LET fits == SelectSeq(ktrace, IsFit)
    IN /\ Len(fits) = 2
       /\ fits[1].stats.end_time > CLASS_DEF_TIME
       /\ fits[2].stats.end_time > fits[1].stats.end_time
       /\ fits[2].stats.start_time = fits[1].stats.start_time

(* ---- reading a run of the earlier fit() ---- *)

IsEval(ev) == ev.op = "eval"
ReadsLoader(ev) == ev.op \in {"train", "eval"}
\* the epoch the eval losses select: the first one with the least loss, 0
\* when none is below +infinity
BestByLoss(losses) ==
    IF \A i \in 1..Len(losses) : losses[i] >= Inf THEN 0
    ELSE CHOOSE e \in 1..Len(losses) :
            /\ \A j \in 1..Len(losses) : losses[e] <= losses[j]
            /\ \A j \in 1..(e - 1) : losses[j] > losses[e]

\* C27: the earlier fit() fails exactly when train_loader or test_loader is
\* None, whatever validation_loader is; no pass reads validation_loader; the
\* loss recorded for an epoch is the one _eval_epoch returned and best_epoch
\* is the first epoch with the least such loss; the call returns None.
C27_ModelsFitUsesTestLoader ==
    LET evs == SelectSeq(trace, IsEval)
    IN /\ method = "fit" =>
            (pc = "raised" <=> (train_loader = NoLoader \/ test_loader = NoLoader))
       /\ pc = "raised" => error = "ValueError"
       /\ \A i \in 1..Len(trace) :
            ReadsLoader(trace[i]) => trace[i].loader \in {"train", "test"}
       /\ (method = "fit" /\ pc # "raised") =>
            LET n == Len(train_stats.epoch_stats)
            IN /\ n <= Len(evs)
               /\ \A i \in 1..n : train_stats.epoch_stats[i].test_loss = evs[i].loss
               /\ train_stats.best_epoch =
                     BestByLoss([i \in 1..n |-> evs[i].loss])
       /\ pc = "done" =>
            /\ fit_ret = NoValue
            /\ train_stats_json.best_epoch = train_stats.best_epoch

\* a run without a validation loader that ended, the second epoch the best
C27_Witness ==
    /\ method = "fit" /\ pc = "done"
    /\ val_loader = NoLoader /\ test_loader # NoLoader
    /\ fit_ret = NoValue
    /\ train_stats.best_epoch = 2
    /\ Len(train_stats.epoch_stats) = 3

(* ---- the best model on disk ---- *)

IsBestStore(ev) == ev.op = "store_best"
SomeFiniteLoss(ts) ==
    \E i \in 1..Len(ts.epoch_stats) : ts.epoch_stats[i].test_loss < Inf

\* C28: when fit() has returned and some epoch had a validation loss below
\* +infinity, best_model.pt holds the parameters the model had at the end of
\* epoch best_epoch of this call, the content of that epoch's checkpoint
\* file; when no epoch had one (num_epochs = 0 included), best_epoch is 0 and
\* this call wrote no best_model.pt.
C28_BestModelIsBestEpochCheckpoint ==
    FitReturned =>
        LET b == fit_ret.best_epoch
            trains == SelectSeq(trace, IsTrain)
            stores == SelectSeq(trace, IsStore)
            bests == SelectSeq(trace, IsBestStore)
        IN IF SomeFiniteLoss(fit_ret)
           THEN /\ num_epochs >= 1
                /\ b \in 1..num_epochs
                /\ BestFile(files) = trains[b].params
                /\ stores[b].epoch = b
                /\ files[stores[b].path] = BestFile(files)
           ELSE /\ b = 0
                /\ bests = <<>>
                /\ caller = "main" => BestModelPath \notin DOMAIN files

\* the best epoch is neither the first nor the last one, and training went
\* on after it
C28_Witness ==
    /\ FitReturned /\ method = "fit" /\ num_epochs = 3
    /\ fit_ret.best_epoch = 2
    /\ BestFile(files) = [init |-> 0, steps |-> 2 * train_loader.batches]
    /\ Params(model) # BestFile(files)

\* a call whose epochs all had an infinite validation loss
C28_WitnessNoBest ==
    /\ FitReturned /\ method = "fit" /\ num_epochs >= 1
    /\ fit_ret.best_epoch = 0
    /\ BestModelPath \notin DOMAIN files

(* ---- the files left behind by k_fold_cv ---- *)

Max(S) == CHOOSE a \in S : \A b \in S : a >= b
\* the folds whose fit() wrote best_model.pt
FoldsWithBest(fits) == {i \in 1..Len(fits) : fits[i].stats.best_epoch > 0}

\* C29 as stated: after k_fold_cv has returned, train_stats.json and
\* best_model.pt are those of the last fold, and the model of the classifier
\* differs from the one in best_model.pt.
C29_Original ==
    KFoldReturned =>
        LET fits == SelectSeq(ktrace, IsFit)
        IN /\ train_stats_json = Last(fits).stats
           /\ BestModelPath \in DOMAIN files
           /\ BestFile(files).init = Last(fits).params.init
           /\ Params(model) # BestFile(files)

\* C29, amended: every fold of k_fold_cv writes train_stats.json, and writes
\* best_model.pt when one of its epochs had a validation loss below
\* +infinity; after k_fold_cv has returned, train_stats.json is that of the
\* last fold, best_model.pt is absent when no fold wrote it and otherwise
\* holds the best epoch's parameters of the last fold that wrote it, and the
\* model of the classifier is a freshly reset one, different from every
\* fold's model and from the content of best_model.pt.
C29_FilesOfLastWritingFold ==
    KFoldReturned =>
        LET fits == SelectSeq(ktrace, IsFit)
            wrote == FoldsWithBest(fits)
        IN /\ Len(fits) = SplitKFold(k)
           /\ train_stats_json = Last(fits).stats
           /\ \A i \in 1..Len(fits) : i \in wrote <=> SomeFiniteLoss(fits[i].stats)
           /\ wrote = {} <=> BestModelPath \notin DOMAIN files
           /\ wrote # {} =>
                LET j == Max(wrote)
                IN /\ BestFile(files).init = fits[j].params.init
                   /\ BestFile(files).steps =
                         fits[j].stats.best_epoch * train_loader.batches
                   /\ Params(model) # BestFile(files)
           /\ model.steps = 0
           /\ \A i \in 1..Len(fits) : model.init # fits[i].params.init

\* two folds, both with a best model: the file is the second fold's
C29_Witness ==
    LET fits == SelectSeq(ktrace, IsFit)
    IN /\ KFoldReturned /\ Len(fits) = 2
       /\ FoldsWithBest(fits) = {1, 2}
       /\ fits[1].stats # fits[2].stats
       /\ BestFile(files).init = fits[2].params.init
       /\ train_stats_json = fits[2].stats

\* two folds, only the first with a best model: the file is the first fold's
C29_WitnessEarlierFold ==
    LET fits == SelectSeq(ktrace, IsFit)
    IN /\ KFoldReturned /\ Len(fits) = 2
       /\ FoldsWithBest(fits) = {1}
       /\ BestFile(files).init = fits[1].params.init

(* ---- who changes the parameters ---- *)

\* C30: whenever a training epoch is about to run, in fit() called directly
\* or in any fold of k_fold_cv, the optimizer is bound to the parameters of
\* the classifier's current model; the optimizer is bound anew only by the
\* reset of a fold, to the new model; and the parameters of a model change
\* only in the training pass of an epoch, in a reset, in a training step
\* (_fit_batch) or in load(), never in the validation pass, in evaluate(),
\* in predict() or in store().
C30_OnlyTrainingLoadResetChangeParams ==
    [][/\ pc = "fit_train" => optimizer.bound = model.init
       /\ Params(model') # Params(model) => pc \in {"fit_train", "kf_reset"}
       /\ optimizer'.bound # optimizer.bound =>
            /\ pc = "kf_reset"
            /\ optimizer'.bound = model'.init
            /\ model'.init # model.init
       /\ \A c \in DOMAIN cls \cap DOMAIN cls' :
            Params(cls'[c].model) # Params(cls[c].model) =>
                /\ method' \in {"_fit_batch", "load"}
                /\ last'.c = c]_vars

\* the training pass of the second fold has run, on the model built by the
\* reset and with the optimizer bound to it
C30_Witness ==
    /\ method = "k_fold_cv" /\ idx = 1 /\ pc = "fit_val"
    /\ model.init # 0 /\ model.steps > 0
    /\ optimizer.bound = model.init
    /\ optimizer.state > initial_optimizer_state_dict

====
